---------------------------- MODULE Spec2Model ----------------------------
(***************************************************************************)
(* A model of the device reconciliation engine of adb-device-watch:        *)
(* UsbEnumerator (usb-watch-base.cc), its periodic ADB worker              *)
(* (task-thread.h) and the netlink notification source                     *)
(* (usb-watch-netlink.cc).                                                 *)
(*                                                                         *)
(* Two threads run: the OS-notification thread, which calls                *)
(* onUsbInterfaceEnumerated / onUsbInterfaceOff, and the ADB worker        *)
(* thread, which runs the reconciliation handler of createAdbTask.  Every  *)
(* lock_guard scope of UsbEnumerator::mutex_ and of task_thread::mutex_ is *)
(* one atomic step; the user callback (onDeviceInterfaceChanged) is called *)
(* outside every lock and is modelled by a begin and an end step.  Code    *)
(* that touches only thread-local data (adb_serials_ and the locals of the *)
(* handler belong to the worker alone) is folded into the step before it.  *)
(***************************************************************************)
EXTENDS Integers, Sequences, FiniteSets

(***************************************************************************)
(* Bounds of the model                                                     *)
(***************************************************************************)
\* OS notifications (arrivals and removals) delivered in one run
MaxEvents == 3
\* reconciliation steps the worker runs in one run of Spec
MaxSteps == 2
\* OS notifications delivered in one run of SpecRetry
RetryEvents == 3
\* largest vendor id and largest product id shouldIncludeDevice is called with
MaxVid == 2
MaxPid == 1
\* records the watcher passes to the callback of a WatchWaiter in one run
MaxEmits == 3

(***************************************************************************)
(* Program constants (usb-watch-base.cc:33-42)                             *)
(***************************************************************************)
ADB_CLASS == 255
ADB_SUBCLASS == 66
ADB_PROTOCOL == 1
FASTBOOT_PROTOCOL == 3
HDC_SUBCLASS == 80
HDC_PROTOCOL == 1
QUALCOMM_VID == 1478
QDL_PID == 36872
MAX_ADB_RETRY_COUNT == 60

\* DeviceType masks, a mask being the set of its bits
usbConnectedAdb == {"Usb", "Adb"}
remoteAdb == {"Net", "Adb"}

(***************************************************************************)
(* The environment: USB devices and what the ADB server may list           *)
(***************************************************************************)
\* Two USB devices; a physical interface is a device, an interface kind and
\* bInterfaceNumber.  d1 is a composite Qualcomm device 05c6:9091 (a diag tty
\* on interface 0 and an ADB interface), with no serial string descriptor; d2
\* has one ADB interface and the serial "s2".
UsbDevices == {"d1", "d2"}

D1Adb == [dev |-> "d1", kind |-> "adb", ifnum |-> 1]

D1Tty == [dev |-> "d1", kind |-> "tty", ifnum |-> 0]

D2Adb == [dev |-> "d2", kind |-> "adb", ifnum |-> 0]

PhysIfs == {D1Adb, D1Tty, D2Adb}

UsbAttrs ==
  [ d1 |-> [numinterfaces |-> 2, busnum |-> 1, devaddr |-> 2, vendor |-> 1478,
            product |-> 37009, serial |-> "", identity |-> "1-1"],
    d2 |-> [numinterfaces |-> 1, busnum |-> 1, devaddr |-> 3, vendor |-> 6353,
            product |-> 20199, serial |-> "s2", identity |-> "1-2"] ]

\* The one serial of the model that has the form ip:port
RemoteSerials == {"10.0.0.1:5555"}

RemoteParts ==
  [s \in RemoteSerials |-> [ip |-> "10.0.0.1", port |-> 5555]]

\* DeviceInfo values the ADB server may list (adb-client.h:66-73): a line of
\* devices-l in state "device"; the keys product:, model:, device: may be missing.
DeviceInfo(serial, product, model, device, transportId) ==
  [serial |-> serial, product |-> product, model |-> model,
   device |-> device, transportId |-> transportId]

DevUniverse ==
  << DeviceInfo("s2", "p2", "m2", "v2", 2),
     DeviceInfo("s1", "p1", "m1", "v1", 1),
     DeviceInfo("s1", "", "", "", 1),
     DeviceInfo("10.0.0.1:5555", "p3", "m3", "v3", 3) >>

\* A snapshot lists each serial at most once, in the server's order.
Snapshots ==
  { SelectSeq(DevUniverse, LAMBDA d : d \in S) :
      S \in { T \in SUBSET { DevUniverse[i] : i \in 1..Len(DevUniverse) } :
                \A a, b \in T : a.serial = b.serial => a = b } }

\* What the ADB server may list in a run: anything; no USB-bound device; or
\* any device but the one with serial "s2"
WorldSnapshots(w) ==
  CASE w = "any" -> Snapshots
    [] w = "remote" ->
         { devs \in Snapshots : \A i \in 1..Len(devs) : devs[i].serial \in RemoteSerials }
    [] w = "not_s2" ->
         { devs \in Snapshots : \A i \in 1..Len(devs) : devs[i].serial # "s2" }

(***************************************************************************)
(* Records                                                                 *)
(***************************************************************************)
\* DeviceInterface with default members.  adbMerged is a history field: it
\* records that merge_adb_info has written this record.
EmptyNode ==
  [identity |-> <<"sha256", "">>, devpath |-> "", hub |-> "", serial |-> "",
   manufacturer |-> "", product |-> "", model |-> "", device |-> "", ip |-> "",
   port |-> 0, driver |-> "", description |-> "", vid |-> 0, pid |-> 0,
   usbClass |-> 0, usbSubClass |-> 0, usbProto |-> 0, usbIf |-> -1, type |-> {},
   off |-> FALSE, adbMerged |-> FALSE]

Trigger(node, round) == [node |-> node, round |-> round]

\* WatchSettings the runs start from
NoFilter ==
  [typeFilters |-> <<>>, includeVids |-> {}, excludeVids |-> {},
   includePids |-> {}, excludePids |-> {}, drivers |-> {},
   enableAdbClient |-> TRUE]

SettingsUniverse ==
  { [NoFilter EXCEPT !.typeFilters = f, !.enableAdbClient = e] :
      f \in {<<>>, <<{"Usb"}>>}, e \in BOOLEAN }

VARIABLES
  settings,     \* settings_
  plug,         \* the physical interfaces that may be attached in this run
  world,        \* what adb_list_devices may return in this run
  attached,     \* physical interfaces the source has reported and not removed
  cached,       \* cached_interfaces_: identity -> DeviceInterface
  adb_serials,  \* adb_serials_
  reqs,         \* task_thread::reqs_
  stop_requested, \* task_thread::stop_requested_
  adb_server,   \* "up": adb_list_devices returns a list, "down": it throws
  thr,          \* per thread: position, the record in hand, history of the call
  wk,           \* locals of the reconciliation handler
  arrived,      \* identities for which an arrival has been emitted
  live,         \* identities whose last emission was an arrival
  events,       \* OS notifications left
  steps,        \* reconciliation steps left
  flt_node,     \* shouldIncludeDevice: the record it is called with
  flt_settings, \* shouldIncludeDevice: the settings it is called with
  flt_result,   \* shouldIncludeDevice: what it returned, if it was called
  ifs,          \* WatchWaiter::ifs_: identity -> DeviceInterface
  wait_if,      \* WatchWaiter::wait_if_: whether it points at the caller's target
  target,       \* the caller's target object of wait_for
  target0,      \* the target as the caller passed it
  timeout,      \* milliseconds_timeout of the call
  wpc,          \* position of the caller of wait_for
  wresult,      \* what wait_for returned
  signals,      \* number of cond_.notify_all() calls of the callback
  emits_left,   \* records the watcher still passes to the waiter's callback
  cl_option,    \* ADB client: the TransportOption of the call
  cl_service,   \* ADB client: the service or command string of the call
  cl_selector,  \* what switch_socket_transport handed to send_protocol_string
  cl_command,   \* what format_host_command returned
  cl_wire,      \* what send_protocol_string wrote to the socket, or its error
  cl_read,      \* what read_protocol_string returned at the other end
  serverLaunchTried, \* connect: the static guard of the process
  listening,    \* whether a TCP connect to the server's endpoint succeeds
  launches,     \* number of times launch_server has been called
  call,         \* the operation in progress, its position in connect
  calls_left,   \* operations the process still starts
  cmd,          \* co_command with a timeout: the coroutine and its watchdog
  shell,        \* read_shell_output: the stream, the buffer, the outputs
  sync,         \* the sync connection: requests, replies, the local files
  race          \* two threads inside connect at once

\* The state of the engine (UsbEnumerator, its worker and its source), of a
\* call of the filter, of a WatchWaiter and of the ADB client
engineVars ==
  << settings, plug, world, attached, cached, adb_serials, reqs,
     stop_requested, adb_server, thr, wk, arrived, live, events, steps >>

filterVars == << flt_node, flt_settings, flt_result >>

waiterVars ==
  << ifs, wait_if, target, target0, timeout, wpc, wresult, signals, emits_left >>

protoVars ==
  << cl_option, cl_service, cl_selector, cl_command, cl_wire, cl_read >>

connVars == << serverLaunchTried, listening, launches, call, calls_left >>

sessionVars == << cmd, shell, sync, race >>

clientVars == << protoVars, connVars, sessionVars >>

vars == << engineVars, filterVars, waiterVars, clientVars >>

Threads == {"os", "worker"}

(***************************************************************************)
(* Pure functions of usb-watch-base.cc                                     *)
(***************************************************************************)
\* picosha2 digest of the interface id, first 16 bytes in hex.  The digest is
\* taken to be collision free on the ids of the model; it is kept distinct
\* from its argument.
createUuid(interface_id) == <<"sha256", interface_id>>

isRemoteDevice(serial) == serial \in RemoteSerials

checkTypeFilter(node, s) ==
  \/ s.typeFilters = <<>>
  \/ \E i \in 1..Len(s.typeFilters) :
       (node.type \cap s.typeFilters[i]) = s.typeFilters[i]

checkVidFilter_ZeroExcluded(node, s) ==
  /\ ~(s.includeVids # {} /\ node.vid \notin s.includeVids)
  /\ ~(s.excludeVids # {} /\ node.vid \in s.excludeVids)

checkVidFilter(node, s) ==
  /\ ~(s.includeVids # {} /\ node.vid \notin s.includeVids)
  /\ ~(s.excludeVids # {} /\ node.vid # 0 /\ node.vid \in s.excludeVids)

checkPidFilter(node, s) ==
  /\ ~(s.includePids # {} /\ node.pid \notin s.includePids)
  /\ ~(s.excludePids # {} /\ node.pid # 0 /\ node.pid \in s.excludePids)

checkDriverFilter(node, s) ==
  \/ s.drivers = {}
  \/ node.driver \in s.drivers

shouldIncludeDevice(node, s) ==
  /\ checkTypeFilter(node, s)
  /\ checkVidFilter(node, s)
  /\ checkPidFilter(node, s)
  /\ checkDriverFilter(node, s)

merge_adb_info(dst, src) ==
  [dst EXCEPT !.serial = src.serial, !.product = src.product,
              !.model = src.model, !.device = src.device,
              !.adbMerged = TRUE]

\* (node.type & usbConnectedAdb) == usbConnectedAdb
IsUsbConnectedAdb(node) == usbConnectedAdb \subseteq node.type

\* Lines 141-155 of onUsbInterfaceEnumerated
Classify(newdev) ==
  LET t1 == IF "Usb" \in newdev.type /\ newdev.usbClass = ADB_CLASS
            THEN IF newdev.usbSubClass = HDC_SUBCLASS /\ newdev.usbProto = HDC_PROTOCOL
                 THEN newdev.type \cup {"HDC"}
                 ELSE IF newdev.usbSubClass = ADB_SUBCLASS /\ newdev.usbProto = ADB_PROTOCOL
                 THEN newdev.type \cup {"Adb"}
                 ELSE IF newdev.usbSubClass = ADB_SUBCLASS /\ newdev.usbProto = FASTBOOT_PROTOCOL
                 THEN newdev.type \cup {"Fastboot"}
                 ELSE newdev.type
            ELSE newdev.type
      t2 == IF newdev.vid = QUALCOMM_VID /\ newdev.pid = QDL_PID
            THEN t1 \cup {"QDL"} ELSE t1
  IN  [newdev EXCEPT !.type = t2]

(***************************************************************************)
(* The netlink notification source                                         *)
(***************************************************************************)
\* session_id = ((uint16_t)busnum << 8) | devaddr, then std::to_string
SessionId(busnum, devaddr) == ((busnum * 256) % 65536) + devaddr

\* std::to_string of an unsigned value: its decimal digits
Digit(d) ==
  CASE d = 0 -> "0" [] d = 1 -> "1" [] d = 2 -> "2" [] d = 3 -> "3" [] d = 4 -> "4"
    [] d = 5 -> "5" [] d = 6 -> "6" [] d = 7 -> "7" [] d = 8 -> "8" [] d = 9 -> "9"

RECURSIVE to_string(_)
to_string(n) == IF n < 10 THEN Digit(n) ELSE to_string(n \div 10) \o Digit(n % 10)

\* The entries of diag_interfaces (pid, ifnum) the devices of the model can hit
diag_interfaces == { <<37009, 0>>, <<36872, 0>> }

\* is_diag_port; no device of the model is listed in edl_interfaces
is_diag_port(vid, pid, ifnum) ==
  vid = QUALCOMM_VID /\ <<pid, ifnum>> \in diag_interfaces

\* sysfs_usb_interface_enumerated, lines 1517-1525: a tty interface that is
\* no diag port is reported only for a device with a single interface
SourceReports(p) ==
  LET a == UsbAttrs[p.dev]
  IN  p.kind = "tty" =>
        (is_diag_port(a.vendor, a.product, p.ifnum) \/ ~(a.numinterfaces > 1))

InterfaceId(p) ==
  to_string(SessionId(UsbAttrs[p.dev].busnum, UsbAttrs[p.dev].devaddr))

\* The record sysfs_usb_interface_enumerated builds for an interface
SourceRecord(p) ==
  LET a == UsbAttrs[p.dev]
      base == [EmptyNode EXCEPT !.hub = a.identity, !.vid = a.vendor,
                                !.pid = a.product, !.serial = a.serial]
  IN  IF p.kind = "tty"
      THEN [base EXCEPT !.type = {"Usb", "ComPort"}]
      ELSE [base EXCEPT !.type = {"Usb", "Adb"}, !.usbClass = ADB_CLASS,
                        !.usbSubClass = ADB_SUBCLASS, !.usbProto = ADB_PROTOCOL]

(***************************************************************************)
(* Helpers on maps, optionals and sequences                                *)
(***************************************************************************)
Put(f, k, v) == [x \in (DOMAIN f) \cup {k} |-> IF x = k THEN v ELSE f[x]]

Del(f, k) == [x \in (DOMAIN f) \ {k} |-> f[x]]

Contains(seq, x) == \E i \in 1..Len(seq) : seq[i] = x

\* A thread at rest: no record in hand, no history of the call
Rest(pc) ==
  [pc |-> pc, node |-> <<>>, found |-> <<>>, wasLive |-> FALSE, emits |-> <<>>]

NoStep == [req |-> <<>>, todo |-> <<>>, pre |-> <<>>, outcome |-> "none"]

\* Where a thread continues after onUsbInterfaceOff or the callback returns:
\* the OS thread returns from its notification, the worker goes on with its step
Back(t) == IF t = "os" THEN "ret" ELSE "ops"

(***************************************************************************)
(* task_thread (task-thread.h)                                             *)
(***************************************************************************)
\* createAdbTask: adb_task_.set_consume_all_requests(true)
consume_all_requests == TRUE

push_request(q, req) == Append(q, req)

push_request_conditional_Always(q, req, identity) ==
  [reqs |-> Append(q, req), added |-> TRUE]

\* the queue after push_request_conditional and its return value
push_request_conditional(q, req, identity) ==
  LET duplicated == \E i \in 1..Len(q) : q[i].node.identity = identity
  IN  [reqs |-> IF duplicated THEN q ELSE Append(q, req), added |-> ~duplicated]

stop_and_done_Never(stop, q, consume_all) == FALSE

\* the test that leaves the loop (task-thread.h:98, 137)
stop_and_done(stop, q, consume_all) == stop /\ (q = << >> \/ ~consume_all)

\* adb_task_.notify_stop(): the irreversible stop signal of the worker
notify_stop == TRUE

(***************************************************************************)
(* UsbEnumerator: the parts shared by both threads                         *)
(***************************************************************************)
\* onUsbInterfaceOff, lines 180-196: look the record up and erase it
OffCached(interface_id) ==
  LET uuid == createUuid(interface_id)
  IN  IF uuid \in DOMAIN cached THEN Del(cached, uuid) ELSE cached

OffThread(t, interface_id) ==
  LET uuid == createUuid(interface_id)
  IN  IF uuid \notin DOMAIN cached
      THEN [thr[t] EXCEPT !.pc = Back(t), !.node = <<>>, !.found = <<>>,
                          !.wasLive = FALSE]
      ELSE LET node == [cached[uuid] EXCEPT !.off = TRUE]
           IN  [thr[t] EXCEPT
                  !.pc = IF IsUsbConnectedAdb(node) /\ settings.enableAdbClient
                         THEN "off_push" ELSE "cb",
                  !.node = <<node>>,
                  !.found = <<cached[uuid]>>,
                  !.wasLive = uuid \in live]

NotMerged_Never(node) == FALSE

\* Whether onUsbInterfaceOff returns without notifying (line 199)
NotMerged(node) == node.device = "" /\ node.model = ""

\* onUsbInterfaceOff, lines 198-203: enqueue the off-Trigger
OffPush(t) ==
  /\ thr[t].pc = "off_push"
  /\ reqs' = push_request(reqs, Trigger(thr[t].node[1], 0))
  /\ thr' = [thr EXCEPT ![t].pc = IF NotMerged(thr[t].node[1]) THEN Back(t) ELSE "cb",
                        ![t].node = IF NotMerged(thr[t].node[1]) THEN <<>> ELSE @]
  /\ UNCHANGED << filterVars, waiterVars, clientVars,
                  settings, plug, world, adb_server, attached, cached, adb_serials,
                  stop_requested, wk, arrived, live, events, steps >>

\* onDeviceInterfaceChanged(node) is entered: the user callback receives node
CallbackBegin(t) ==
  /\ thr[t].pc = "cb"
  /\ LET node == thr[t].node[1]
     IN  /\ thr' = [thr EXCEPT ![t].pc = "in_cb", ![t].emits = Append(@, node)]
         /\ arrived' = IF node.off THEN arrived ELSE arrived \cup {node.identity}
         /\ live' = IF node.off THEN live \ {node.identity}
                    ELSE live \cup {node.identity}
  /\ UNCHANGED << filterVars, waiterVars, clientVars,
                  settings, plug, world, adb_server, attached, cached, adb_serials, reqs,
                  stop_requested, wk, events, steps >>

\* the user callback returns
CallbackEnd(t) ==
  /\ thr[t].pc = "in_cb"
  /\ thr' = [thr EXCEPT ![t].pc = Back(t), ![t].node = <<>>]
  /\ UNCHANGED << filterVars, waiterVars, clientVars,
                  settings, plug, world, adb_server, attached, cached, adb_serials, reqs,
                  stop_requested, wk, arrived, live, events, steps >>

(***************************************************************************)
(* The OS-notification thread                                              *)
(***************************************************************************)
DefersToAdb_Never(newdev) == FALSE

\* lines 163-164: a USB-hosted ADB interface waits for the worker when the
\* ADB client is enabled
DefersToAdb(newdev) == IsUsbConnectedAdb(newdev) /\ settings.enableAdbClient

\* The source reports interface p: onUsbInterfaceEnumerated up to the point
\* where the record is cached (lines 140-169, or 140-162 and 209-213)
OsEnumerated(p) ==
  /\ thr.os.pc = "idle"
  /\ events > 0
  /\ p \in plug \ attached
  /\ SourceReports(p)
  /\ events' = events - 1
  /\ attached' = attached \cup {p}
  /\ LET classified == Classify(SourceRecord(p))
         newdev == [classified EXCEPT !.identity = createUuid(InterfaceId(p))]
     IN  IF ~shouldIncludeDevice(classified, settings)
         THEN /\ thr' = [thr EXCEPT !.os = Rest("ret")]
              /\ UNCHANGED cached
         ELSE /\ cached' = Put(cached, newdev.identity, newdev)
              /\ thr' = [thr EXCEPT !.os =
                           [Rest(IF DefersToAdb(newdev) THEN "enum_push" ELSE "cb")
                              EXCEPT !.node = <<newdev>>]]
  /\ UNCHANGED << filterVars, waiterVars, clientVars,
                  settings, plug, world, adb_server, adb_serials, reqs, stop_requested,
                  wk, arrived, live, steps >>

\* onUsbInterfaceEnumerated, line 171: enqueue the Trigger and return
OsPushTrigger ==
  /\ thr.os.pc = "enum_push"
  /\ reqs' = push_request(reqs, Trigger(thr.os.node[1], 0))
  /\ thr' = [thr EXCEPT !.os.pc = "ret", !.os.node = <<>>]
  /\ UNCHANGED << filterVars, waiterVars, clientVars,
                  settings, plug, world, adb_server, attached, cached, adb_serials,
                  stop_requested, wk, arrived, live, events, steps >>

\* The source reports the removal of device d (a remove uevent carries BUSNUM
\* and DEVNUM of the device): onUsbInterfaceOff up to the erase
OsOff(d) ==
  /\ thr.os.pc = "idle"
  /\ events > 0
  /\ \E p \in attached : p.dev = d
  /\ events' = events - 1
  /\ attached' = { p \in attached : p.dev # d }
  /\ LET interface_id == to_string(SessionId(UsbAttrs[d].busnum, UsbAttrs[d].devaddr))
     IN  /\ cached' = OffCached(interface_id)
         /\ thr' = [thr EXCEPT !.os = [OffThread("os", interface_id) EXCEPT !.emits = <<>>]]
  /\ UNCHANGED << filterVars, waiterVars, clientVars,
                  settings, plug, world, adb_server, adb_serials, reqs, stop_requested,
                  wk, arrived, live, steps >>

\* the notification handler returns to poll()
OsReturn ==
  /\ thr.os.pc = "ret"
  /\ thr' = [thr EXCEPT !.os = Rest("idle")]
  /\ UNCHANGED << filterVars, waiterVars, clientVars,
                  settings, plug, world, adb_server, attached, cached, adb_serials, reqs,
                  stop_requested, wk, arrived, live, events, steps >>

(***************************************************************************)
(* The reconciliation handler of createAdbTask (lines 232-316)             *)
(***************************************************************************)
\* adb_serials_.remove(serial) of std::list
ListRemove(serials, serial) == SelectSeq(serials, LAMBDA x : x # serial)

\* lines 233-238: an off-Trigger forgets its serial and is cleared
OffTrigger(req, serials) ==
  IF req # <<>> /\ req[1].node.off
  THEN [req |-> <<>>, serials |-> ListRemove(serials, req[1].node.serial)]
  ELSE [req |-> req, serials |-> serials]

NotFound(devs, serial) == \A i \in 1..Len(devs) : devs[i].serial # serial

\* lines 249-260: the serials erase_if keeps, and the remote serials it turns off
RemovalSweep(serials, devs) ==
  [kept |-> SelectSeq(serials, LAMBDA x : ~NotFound(devs, x)),
   offs |-> SelectSeq(serials, LAMBDA x : NotFound(devs, x) /\ isRemoteDevice(x))]

\* lines 267-272: the record of a remote device
RemoteNode(dev) ==
  merge_adb_info(
    [EmptyNode EXCEPT !.ip = RemoteParts[dev.serial].ip,
                      !.port = RemoteParts[dev.serial].port,
                      !.identity = createUuid(dev.serial),
                      !.type = remoteAdb],
    dev)

IsCandidate_ExactOnly(req, dev) ==
  /\ req # <<>>
  /\ req[1].node.serial = dev.serial

\* lines 278-288: whether dev is a candidate of the Trigger in flight
IsCandidate(req, dev) ==
  /\ req # <<>>
  /\ (req[1].node.serial = dev.serial \/ req[1].node.serial = "")

\* lines 280-286: a candidate matched by its serial sorts at the head
Candidate(req, dev) ==
  IF req[1].node.serial = dev.serial THEN [dev EXCEPT !.transportId = -1] ELSE dev

\* lines 262-291: the loop over devs from index i on; st holds adb_serials_,
\* the remote records passed to onDeviceInterfaceChangedToOn, and newly_added
RECURSIVE AdditionSweep(_, _, _, _)
AdditionSweep(devs, i, req, st) ==
  IF i > Len(devs) THEN st
  ELSE LET dev == devs[i]
       IN  IF Contains(st.serials, dev.serial)
           THEN AdditionSweep(devs, i + 1, req, st)
           ELSE IF isRemoteDevice(dev.serial)
           THEN LET rmote == RemoteNode(dev)
                IN  AdditionSweep(devs, i + 1, req,
                      [st EXCEPT !.serials = Append(@, rmote.serial),
                                 !.ons = IF shouldIncludeDevice(rmote, settings)
                                         THEN Append(@, rmote) ELSE @])
           ELSE IF IsCandidate(req, dev)
           THEN AdditionSweep(devs, i + 1, req,
                      [st EXCEPT !.newly_added = Append(@, Candidate(req, dev))])
           ELSE AdditionSweep(devs, i + 1, req, st)

\* lines 294-296: std::ranges::sort by transportId (the ids of a list differ)
RECURSIVE SortByTransportId(_)
SortByTransportId(list) ==
  IF list = <<>> THEN <<>>
  ELSE LET m == CHOOSE i \in 1..Len(list) :
                  \A j \in 1..Len(list) : list[i].transportId <= list[j].transportId
       IN  <<list[m]>> \o
           SortByTransportId(SubSeq(list, 1, m - 1) \o SubSeq(list, m + 1, Len(list)))

\* lines 293-303: merge the first candidate into the Trigger's record
Correlation(req, st) ==
  IF st.newly_added # <<>>
  THEN LET node == merge_adb_info(req[1].node, SortByTransportId(st.newly_added)[1])
       IN  [req |-> <<>>, serials |-> Append(st.serials, node.serial),
            ons |-> Append(st.ons, node), outcome |-> "correlated"]
  ELSE [req |-> req, serials |-> st.serials, ons |-> st.ons, outcome |-> "none"]

\* What one step does with the snapshot devs: the Trigger left in flight, the
\* new adb_serials_, and in order the calls onUsbInterfaceOff(serial) and
\* onDeviceInterfaceChangedToOn(node) it makes
Reconcile(req0, serials0, devs) ==
  LET a == OffTrigger(req0, serials0)
      r == RemovalSweep(a.serials, devs)
      s == AdditionSweep(devs, 1, a.req,
                         [serials |-> r.kept, ons |-> <<>>, newly_added |-> <<>>])
      c == Correlation(a.req, s)
  IN  [req |-> c.req, serials |-> c.serials, outcome |-> c.outcome,
       todo |-> [i \in 1..Len(r.offs) |-> [op |-> "off", serial |-> r.offs[i], node |-> <<>>]]
                \o [i \in 1..Len(c.ons) |-> [op |-> "on", serial |-> "", node |-> <<c.ons[i]>>]]]

(***************************************************************************)
(* The ADB worker thread                                                   *)
(***************************************************************************)
StepAllowed == ~steps.limited \/ steps.left > 0

StepTaken == IF steps.limited THEN [steps EXCEPT !.left = @ - 1] ELSE steps

\* task_thread::start, line 128: the first call of the handler, with no request
WkFirst ==
  /\ thr.worker.pc = "first"
  /\ StepAllowed
  /\ steps' = StepTaken
  /\ thr' = [thr EXCEPT !.worker = Rest("list")]
  /\ wk' = NoStep
  /\ UNCHANGED << filterVars, waiterVars, clientVars,
                  settings, plug, world, adb_server, attached, cached, adb_serials, reqs,
                  stop_requested, arrived, live, events >>

\* task_thread::start, lines 130-147: wake up on a request, on the period or on stop
WkWake ==
  /\ thr.worker.pc = "wait"
  /\ IF stop_and_done(stop_requested, reqs, consume_all_requests)
     THEN /\ thr' = [thr EXCEPT !.worker = Rest("exit")]
          /\ reqs' = <<>>
          /\ UNCHANGED << wk, steps >>
     ELSE /\ StepAllowed
          /\ steps' = StepTaken
          /\ thr' = [thr EXCEPT !.worker = Rest("list")]
          /\ IF reqs # <<>>
             THEN /\ wk' = [NoStep EXCEPT !.req = <<Head(reqs)>>]
                  /\ reqs' = Tail(reqs)
             ELSE /\ wk' = NoStep
                  /\ UNCHANGED reqs
  /\ UNCHANGED << filterVars, waiterVars, clientVars,
                  settings, plug, world, adb_server, attached, cached, adb_serials,
                  stop_requested, arrived, live, events >>

\* lines 233-247 when adb_list_devices throws: the worker is told to stop
WkListFailed ==
  /\ thr.worker.pc = "list"
  /\ adb_server = "down"
  /\ adb_serials' = OffTrigger(wk.req, adb_serials).serials
  /\ stop_requested' = notify_stop
  /\ wk' = [wk EXCEPT !.outcome = "failed"]
  /\ thr' = [thr EXCEPT !.worker.pc = "ret"]
  /\ UNCHANGED << filterVars, waiterVars, clientVars,
                  settings, plug, world, adb_server, attached, cached, reqs, arrived,
                  live, events, steps >>

\* lines 233-303 when adb_list_devices returns devs
WkList(devs) ==
  /\ thr.worker.pc = "list"
  /\ adb_server = "up"
  /\ devs \in WorldSnapshots(world)
  /\ LET r == Reconcile(wk.req, adb_serials, devs)
     IN  /\ adb_serials' = r.serials
         /\ wk' = [req |-> r.req, todo |-> r.todo, outcome |-> r.outcome,
                   pre |-> <<[req |-> wk.req, devs |-> devs, serials |-> adb_serials]>>]
  /\ thr' = [thr EXCEPT !.worker.pc = "ops"]
  /\ UNCHANGED << filterVars, waiterVars, clientVars,
                  settings, plug, world, adb_server, attached, cached, reqs,
                  stop_requested, arrived, live, events, steps >>

\* the next call of the step: onUsbInterfaceOff (line 256) up to the erase, or
\* onDeviceInterfaceChangedToOn (lines 275, 301) up to the insertion
WkOp ==
  /\ thr.worker.pc = "ops"
  /\ wk.todo # <<>>
  /\ LET op == Head(wk.todo)
     IN  IF op.op = "off"
         THEN /\ cached' = OffCached(op.serial)
              /\ thr' = [thr EXCEPT !.worker = OffThread("worker", op.serial)]
         ELSE /\ cached' = Put(cached, op.node[1].identity, op.node[1])
              /\ thr' = [thr EXCEPT !.worker.pc = "cb", !.worker.node = op.node]
  /\ wk' = [wk EXCEPT !.todo = Tail(@)]
  /\ UNCHANGED << filterVars, waiterVars, clientVars,
                  settings, plug, world, adb_server, attached, adb_serials, reqs,
                  stop_requested, arrived, live, events, steps >>

RetryAllowed_Inclusive(req) == req # <<>> /\ req[1].round <= MAX_ADB_RETRY_COUNT

\* line 305: whether the Trigger left in flight is enqueued again
RetryAllowed(req) == req # <<>> /\ req[1].round < MAX_ADB_RETRY_COUNT

\* lines 305-315: enqueue the Trigger again unless its identity is queued
WkRetry ==
  /\ thr.worker.pc = "ops"
  /\ wk.todo = <<>>
  /\ IF RetryAllowed(wk.req)
     THEN LET req == [wk.req[1] EXCEPT !.round = @ + 1]
              r == push_request_conditional(reqs, req, req.node.identity)
          IN  /\ reqs' = r.reqs
              /\ wk' = [wk EXCEPT !.req = <<req>>,
                                  !.outcome = IF r.added THEN "requeued" ELSE "duplicate"]
     ELSE /\ wk' = [wk EXCEPT !.outcome = IF wk.req # <<>> THEN "dropped" ELSE @]
          /\ UNCHANGED reqs
  /\ thr' = [thr EXCEPT !.worker.pc = "ret"]
  /\ UNCHANGED << filterVars, waiterVars, clientVars,
                  settings, plug, world, adb_server, attached, cached, adb_serials,
                  stop_requested, arrived, live, events, steps >>

\* the handler returns to the loop of task_thread
WkReturn ==
  /\ thr.worker.pc = "ret"
  /\ thr' = [thr EXCEPT !.worker = Rest("wait")]
  /\ wk' = NoStep
  /\ UNCHANGED << filterVars, waiterVars, clientVars,
                  settings, plug, world, adb_server, attached, cached, adb_serials, reqs,
                  stop_requested, arrived, live, events, steps >>

(***************************************************************************)
(* Specifications                                                          *)
(***************************************************************************)
\* initialEnumerateDevices: the worker is created (if enabled) before the
\* source enumerates the interfaces that are present
InitEngine(s) ==
  /\ settings = s
  /\ attached = {}
  /\ cached = <<>>
  /\ adb_serials = <<>>
  /\ reqs = <<>>
  /\ stop_requested = FALSE
  /\ adb_server = "up"
  /\ thr = [os |-> Rest("idle"),
            worker |-> Rest(IF s.enableAdbClient THEN "first" ELSE "none")]
  /\ wk = NoStep
  /\ arrived = {}
  /\ live = {}

\* no call of the filter is looked at on its own
FilterIdle ==
  /\ flt_node = <<>>
  /\ flt_settings = <<>>
  /\ flt_result = <<>>

\* no WatchWaiter is looked at
WaiterIdle ==
  /\ ifs = <<>>
  /\ wait_if = FALSE
  /\ target = <<>>
  /\ target0 = <<>>
  /\ timeout = 0
  /\ wpc = "none"
  /\ wresult = <<>>
  /\ signals = 0
  /\ emits_left = 0

\* no call of the ADB client is looked at
ProtoIdle ==
  /\ cl_option = <<>>
  /\ cl_service = ""
  /\ cl_selector = <<>>
  /\ cl_command = <<>>
  /\ cl_wire = <<>>
  /\ cl_read = <<>>

ConnIdle ==
  /\ serverLaunchTried = FALSE
  /\ listening = FALSE
  /\ launches = 0
  /\ call = <<>>
  /\ calls_left = 0

SessionIdle ==
  /\ cmd = <<>>
  /\ shell = <<>>
  /\ sync = <<>>
  /\ race = <<>>

ClientIdle == ProtoIdle /\ ConnIdle /\ SessionIdle

Init ==
  /\ \E s \in SettingsUniverse : InitEngine(s)
  /\ FilterIdle
  /\ WaiterIdle
  /\ ClientIdle
  /\ plug = PhysIfs
  /\ world = "any"
  /\ events = MaxEvents
  /\ steps = [limited |-> TRUE, left |-> MaxSteps]

\* The ADB server goes away and does not come back in this run
AdbServerDown ==
  /\ adb_server = "up"
  /\ settings.enableAdbClient
  /\ adb_server' = "down"
  /\ UNCHANGED << filterVars, waiterVars, clientVars,
                  settings, plug, world, attached, cached, adb_serials, reqs,
                  stop_requested, thr, wk, arrived, live, events, steps >>

OsNext ==
  \/ \E p \in PhysIfs : OsEnumerated(p)
  \/ OsPushTrigger
  \/ \E d \in UsbDevices : OsOff(d)
  \/ OsReturn

WorkerNext ==
  \/ WkFirst
  \/ WkWake
  \/ WkListFailed
  \/ \E devs \in Snapshots : WkList(devs)
  \/ WkOp
  \/ WkRetry
  \/ WkReturn

Next ==
  \/ AdbServerDown
  \/ OsNext
  \/ WorkerNext
  \/ \E t \in Threads : OffPush(t)
  \/ \E t \in Threads : CallbackBegin(t)
  \/ \E t \in Threads : CallbackEnd(t)

Spec == Init /\ [][Next]_vars

\* Runs in which the ADB server answers every listing and never lists a device
\* that matches the USB-ADB interface: d1 (no serial) while only remote devices
\* are listed, or d2 (serial "s2") while "s2" is never listed.  The worker
\* runs without a bound on its steps.
InitRetry ==
  /\ InitEngine(NoFilter)
  /\ FilterIdle
  /\ WaiterIdle
  /\ ClientIdle
  /\ \/ plug = {D1Adb} /\ world = "remote"
     \/ plug = {D2Adb, D1Tty} /\ world = "not_s2"
  /\ events = RetryEvents
  /\ steps = [limited |-> FALSE, left |-> 0]

\* What the worker thread does in these runs.  The loop of task_thread::start
\* waits with a timeout (ADB_POLL_INTERVAL) and the callback returns, so the
\* worker always gets to its next step.
WorkerThread ==
  \/ WkFirst
  \/ WkWake
  \/ \E devs \in Snapshots : WkList(devs)
  \/ WkOp
  \/ WkRetry
  \/ WkReturn
  \/ OffPush("worker")
  \/ CallbackBegin("worker")
  \/ CallbackEnd("worker")

NextRetry ==
  \/ OsNext
  \/ WorkerThread
  \/ OffPush("os")
  \/ CallbackBegin("os")
  \/ CallbackEnd("os")

SpecRetry == InitRetry /\ [][NextRetry]_vars /\ WF_vars(WorkerThread)

(***************************************************************************)
(* Shutdown of the engine                                                  *)
(***************************************************************************)
\* OS notifications before the source leaves its poll loop
ShutdownEvents == 2

\* the runs of InitRetry, the source stopping after ShutdownEvents notifications
InitShutdown ==
  /\ InitEngine(NoFilter)
  /\ FilterIdle
  /\ WaiterIdle
  /\ ClientIdle
  /\ \/ plug = {D1Adb} /\ world = "remote"
     \/ plug = {D2Adb, D1Tty} /\ world = "not_s2"
  /\ events = ShutdownEvents
  /\ steps = [limited |-> FALSE, left |-> 0]

\* createWatch leaves its poll loop and calls deleteAdbTask
\* (usb-watch-netlink.cc:1590-1592), that is adb_task_.stop(): the flag is
\* set and the worker is notified, then the thread is joined
deleteAdbTask ==
  /\ \/ /\ thr.os.pc = "idle"
        /\ stop_requested' = TRUE
        /\ thr' = [thr EXCEPT !.os.pc = "join"]
     \/ /\ thr.os.pc = "join"
        /\ thr.worker.pc \in {"exit", "none"}
        /\ thr' = [thr EXCEPT !.os.pc = "stopped"]
        /\ UNCHANGED stop_requested
  /\ UNCHANGED << filterVars, waiterVars, clientVars,
                  settings, plug, world, adb_server, attached, cached, adb_serials,
                  reqs, wk, arrived, live, events, steps >>

NextShutdown ==
  \/ NextRetry
  \/ deleteAdbTask

\* The worker runs as in SpecRetry, and join returns once the thread has ended
SpecShutdown ==
  /\ InitShutdown
  /\ [][NextShutdown]_vars
  /\ WF_vars(WorkerThread)
  /\ WF_vars(thr.os.pc = "join" /\ deleteAdbTask)

(***************************************************************************)
(* mutex_ of the engine and the user callback.  The three functions that   *)
(* touch cached_interfaces_ are taken statement by statement; wk.mutex is  *)
(* the thread that holds mutex_, thr the position of each thread           *)
(***************************************************************************)
MutexIdentities == {1, 2}

\* onUsbInterfaceEnumerated, the branch of a USB-ADB interface with the ADB
\* client enabled (lines 166-172); the other branch is the call of
\* onDeviceInterfaceChangedToOn at line 176
onUsbInterfaceEnumerated == << "lock", "store", "unlock", "push" >>

\* lines 183-206: a return inside the scope of the lock_guard releases it
onUsbInterfaceOff ==
  << "lock", "erase_or_return", "unlock", "push_or_return", "callback" >>

onDeviceInterfaceChangedToOn_InScope == << "lock", "store", "callback", "unlock" >>

\* lines 210-215
onDeviceInterfaceChangedToOn == << "lock", "store", "unlock", "callback" >>

\* what each thread calls: the source its notifications (140, 176, 179), the
\* worker the removal sweep (256) and the additions (275, 301)
MutexCalls ==
  [os |-> {"onUsbInterfaceEnumerated", "onUsbInterfaceOff",
           "onDeviceInterfaceChangedToOn"},
   worker |-> {"onUsbInterfaceOff", "onDeviceInterfaceChangedToOn"}]

Statements(fn) ==
  CASE fn = "onUsbInterfaceEnumerated" -> onUsbInterfaceEnumerated
    [] fn = "onUsbInterfaceOff" -> onUsbInterfaceOff
    [] fn = "onDeviceInterfaceChangedToOn" -> onDeviceInterfaceChangedToOn

AtRest == [fn |-> "", k |-> 0, id |-> 0, cb |-> "no"]

InitMutex ==
  /\ FilterIdle /\ WaiterIdle /\ ClientIdle
  /\ settings = NoFilter /\ plug = {} /\ world = "any" /\ attached = {}
  /\ adb_serials = << >> /\ adb_server = "up"
  /\ arrived = {} /\ live = {} /\ events = 0
  /\ steps = [limited |-> TRUE, left |-> 0]
  /\ reqs = << >>
  /\ stop_requested = FALSE
  /\ cached = << >>
  /\ wk = [mutex |-> "free"]
  /\ thr = [t \in Threads |-> AtRest]

mutexRest ==
  << filterVars, waiterVars, clientVars, settings, plug, world, attached,
     adb_serials, adb_server, arrived, live, events, steps, reqs,
     stop_requested >>

\* thread t enters one of the functions for the interface id
MutexCall(t, fn, id) ==
  /\ thr[t].fn = ""
  /\ fn \in MutexCalls[t]
  /\ thr' = [thr EXCEPT ![t] = [fn |-> fn, k |-> 1, id |-> id, cb |-> "no"]]
  /\ UNCHANGED << mutexRest, cached, wk >>

\* thread t executes its next statement; ret says whether a statement that
\* may return does
MutexStep(t, ret) ==
  /\ thr[t].fn # ""
  /\ thr[t].cb = "no"
  /\ LET prog == Statements(thr[t].fn)
         st == prog[thr[t].k]
         next == IF thr[t].k = Len(prog) THEN AtRest
                 ELSE [thr[t] EXCEPT !.k = @ + 1]
         id == thr[t].id
     IN  CASE st = "lock" ->
                /\ ~ret
                /\ wk.mutex = "free"
                /\ wk' = [wk EXCEPT !.mutex = t]
                /\ thr' = [thr EXCEPT ![t] = next]
                /\ UNCHANGED cached
           [] st = "store" ->
                /\ ~ret
                /\ cached' = Put(cached, id, TRUE)
                /\ thr' = [thr EXCEPT ![t] = next]
                /\ UNCHANGED wk
           [] st = "erase_or_return" ->
                /\ ~ret
                /\ IF id \in DOMAIN cached
                   THEN /\ cached' = Del(cached, id)
                        /\ thr' = [thr EXCEPT ![t] = next]
                        /\ UNCHANGED wk
                   ELSE /\ thr' = [thr EXCEPT ![t] = AtRest]
                        /\ wk' = [wk EXCEPT !.mutex = "free"]
                        /\ UNCHANGED cached
           [] st = "unlock" ->
                /\ ~ret
                /\ wk' = [wk EXCEPT !.mutex = IF @ = t THEN "free" ELSE @]
                /\ thr' = [thr EXCEPT ![t] = next]
                /\ UNCHANGED cached
           [] st = "push" ->
                /\ ~ret
                /\ thr' = [thr EXCEPT ![t] = next]
                /\ UNCHANGED << cached, wk >>
           [] st = "push_or_return" ->
                /\ thr' = [thr EXCEPT ![t] = IF ret THEN AtRest ELSE next]
                /\ UNCHANGED << cached, wk >>
           [] st = "callback" ->
                /\ ~ret
                /\ thr' = [thr EXCEPT ![t].cb = "in"]
                /\ UNCHANGED << cached, wk >>
  /\ UNCHANGED mutexRest

\* the user callback calls back into the engine, into a function that takes
\* mutex_ and releases it
CallbackReenters(t) ==
  /\ \/ /\ thr[t].cb = "in"
        /\ wk.mutex = "free"
        /\ wk' = [wk EXCEPT !.mutex = t]
        /\ thr' = [thr EXCEPT ![t].cb = "locked"]
     \/ /\ thr[t].cb = "locked"
        /\ wk' = [wk EXCEPT !.mutex = "free"]
        /\ thr' = [thr EXCEPT ![t].cb = "in"]
  /\ UNCHANGED << mutexRest, cached >>

\* the user callback returns
CallbackReturns(t) ==
  /\ thr[t].cb = "in"
  /\ LET prog == Statements(thr[t].fn)
     IN  thr' = [thr EXCEPT ![t] = IF thr[t].k = Len(prog) THEN AtRest
                                   ELSE [thr[t] EXCEPT !.k = @ + 1, !.cb = "no"]]
  /\ UNCHANGED << mutexRest, cached, wk >>

NextMutex ==
  \/ \E t \in Threads, fn \in MutexCalls.os, id \in MutexIdentities : MutexCall(t, fn, id)
  \/ \E t \in Threads, ret \in BOOLEAN : MutexStep(t, ret)
  \/ \E t \in Threads : CallbackReenters(t)
  \/ \E t \in Threads : CallbackReturns(t)

SpecMutex == InitMutex /\ [][NextMutex]_vars

(***************************************************************************)
(* shouldIncludeDevice as a function of its arguments                      *)
(***************************************************************************)
\* The engine is not running while the filter is looked at on its own
EngineIdle ==
  /\ InitEngine(NoFilter)
  /\ plug = {}
  /\ world = "any"
  /\ events = 0
  /\ steps = [limited |-> TRUE, left |-> 0]

\* The records and the settings the filter is called with
FilterNodes ==
  { [EmptyNode EXCEPT !.type = t, !.vid = v, !.pid = q, !.driver = d] :
      t \in { {}, {"Usb"}, {"Usb", "Adb"}, {"Net", "Adb"} },
      v \in 0..MaxVid, q \in 0..MaxPid, d \in {"", "usbser"} }

FilterSettings ==
  { [NoFilter EXCEPT !.typeFilters = f, !.includeVids = iv, !.excludeVids = ev,
                     !.includePids = ip, !.excludePids = ep, !.drivers = dr] :
      f \in { <<>>, <<{"Usb"}>>, <<{"Usb", "Adb"}, {"Net"}>>, <<{}>> },
      iv \in { {}, {1}, {0, MaxVid} }, ev \in { {}, {1}, {0, MaxVid} },
      ip \in { {}, {1} }, ep \in { {}, {0, MaxPid} },
      dr \in { {}, {"usbser"} } }

InitFilter ==
  /\ EngineIdle
  /\ WaiterIdle
  /\ ClientIdle
  /\ flt_node \in FilterNodes
  /\ flt_settings \in FilterSettings
  /\ flt_result = <<>>

\* onUsbInterfaceEnumerated line 157, handler line 274: the filter is applied
FilterCall ==
  /\ flt_result = <<>>
  /\ flt_result' = <<shouldIncludeDevice(flt_node, flt_settings)>>
  /\ UNCHANGED << engineVars, waiterVars, clientVars, flt_node, flt_settings >>

NextFilter == FilterCall

SpecFilter == InitFilter /\ [][NextFilter]_vars

(***************************************************************************)
(* WatchWaiter (device-watcher.h)                                          *)
(***************************************************************************)
\* Records the watcher may pass to the callback: an ADB interface on USB, its
\* departure, a serial port, and a remote ADB device
WaiterRecords ==
  { [EmptyNode EXCEPT !.identity = "id1", !.hub = "1-1", !.serial = "s1",
                      !.model = "m1", !.device = "v1", !.type = {"Usb", "Adb"}],
    [EmptyNode EXCEPT !.identity = "id1", !.hub = "1-1", !.serial = "s1",
                      !.model = "m1", !.device = "v1", !.type = {"Usb", "Adb"},
                      !.off = TRUE],
    [EmptyNode EXCEPT !.identity = "id2", !.hub = "1-2", !.devpath = "/dev/ttyUSB0",
                      !.description = "ttyUSB0", !.driver = "usbser",
                      !.type = {"Usb", "ComPort"}],
    [EmptyNode EXCEPT !.identity = "id3", !.serial = "10.0.0.1:5555", !.ip = "10.0.0.1",
                      !.port = 5555, !.model = "m3", !.type = {"Net", "Adb"}] }

\* a target with every field at its default
AnyTarget == [EmptyNode EXCEPT !.identity = ""]

\* Targets a caller waits for
WaiterTargets ==
  { AnyTarget,
    [AnyTarget EXCEPT !.type = {"Usb", "Adb"}],
    [AnyTarget EXCEPT !.type = {"Adb"}, !.off = TRUE],
    [AnyTarget EXCEPT !.serial = "s1"],
    [AnyTarget EXCEPT !.model = "m3"],
    [AnyTarget EXCEPT !.description = "ttyUSB1"],
    [AnyTarget EXCEPT !.identity = "1-2"],
    [AnyTarget EXCEPT !.port = 5555, !.type = {"Net"}] }

\* milliseconds_timeout: negative, or a time that elapses
WaiterTimeouts == {-1, 1000}

\* (target.type & iface.type), converted to bool
TypeBitsMeet(a, b) == (a \cap b) # {}

test_match(tgt, iface) ==
  /\ tgt.off = iface.off
  /\ (tgt.type = {} \/ TypeBitsMeet(tgt.type, iface.type))
  /\ (tgt.devpath = "" \/ tgt.devpath = iface.devpath)
  /\ (tgt.hub = "" \/ tgt.hub = iface.hub)
  /\ (tgt.serial = "" \/ tgt.serial = iface.serial)
  /\ (tgt.ip = "" \/ tgt.ip = iface.ip)
  /\ (tgt.driver = "" \/ tgt.driver = iface.driver)
  /\ (tgt.port = 0 \/ tgt.port = iface.port)
  /\ (tgt.vid = 0 \/ tgt.vid = iface.vid)
  /\ (tgt.pid = 0 \/ tgt.pid = iface.pid)
  /\ (tgt.usbClass = 0 \/ tgt.usbClass = iface.usbClass)
  /\ (tgt.usbSubClass = 0 \/ tgt.usbSubClass = iface.usbSubClass)
  /\ (tgt.usbProto = 0 \/ tgt.usbProto = iface.usbProto)
  /\ (tgt.usbIf < 0 \/ tgt.usbIf = iface.usbIf)
  /\ (tgt.identity = ""
        \/ tgt.identity = iface.identity \/ tgt.identity = iface.devpath
        \/ tgt.identity = iface.hub \/ tgt.identity = iface.serial
        \/ tgt.identity = iface.ip \/ tgt.identity = iface.driver)

match_target_Any(tgt, map) == { map[id] : id \in DOMAIN map }

\* match_target: the records of a map the loop may stop at (the order of an
\* unordered_map is not fixed, so any matching record may be the first)
match_target(tgt, map) == { map[id] : id \in { i \in DOMAIN map : test_match(tgt, map[i]) } }

\* get_all(filter)
get_all(filter) == { ifs[id] : id \in { i \in DOMAIN ifs : test_match(filter, ifs[i]) } }

\* wait_for is called: the check under the lock, then the registration
WaitFor(tgt, ms) ==
  /\ wpc = "idle"
  /\ target0' = tgt
  /\ timeout' = ms
  /\ IF match_target(tgt, ifs) # {}
     THEN /\ \E iface \in match_target(tgt, ifs) : target' = iface
          /\ wpc' = "done"
          /\ wresult' = <<TRUE>>
          /\ UNCHANGED wait_if
     ELSE /\ target' = tgt
          /\ wait_if' = TRUE
          /\ wpc' = "waiting"
          /\ UNCHANGED wresult
  /\ UNCHANGED << engineVars, filterVars, clientVars, ifs, signals, emits_left >>

\* cond_.wait / cond_.wait_for returns with the predicate true
WaitWake ==
  /\ wpc = "waiting"
  /\ ~wait_if
  /\ wpc' = "done"
  /\ wresult' = <<TRUE>>
  /\ UNCHANGED << engineVars, filterVars, clientVars, ifs, wait_if, target, target0, timeout,
                  signals, emits_left >>

\* whether wait_for clears the registration when the time has elapsed
ClearsOnTimeout_Never == FALSE

ClearsOnTimeout == TRUE

\* cond_.wait_for returns because the time has elapsed
WaitTimeout ==
  /\ wpc = "waiting"
  /\ wait_if
  /\ timeout >= 0
  /\ wait_if' = IF ClearsOnTimeout THEN FALSE ELSE wait_if
  /\ wpc' = "done"
  /\ wresult' = <<FALSE>>
  /\ UNCHANGED << engineVars, filterVars, clientVars, ifs, target, target0, timeout, signals,
                  emits_left >>

\* The callback WatchWaiter::start gives to the watcher
WaiterCallback(node) ==
  /\ emits_left > 0
  /\ emits_left' = emits_left - 1
  /\ ifs' = Put(ifs, node.identity, node)
  /\ IF wait_if /\ match_target(target, ifs') # {}
     THEN /\ \E iface \in match_target(target, ifs') : target' = iface
          /\ wait_if' = FALSE
          /\ signals' = signals + 1
     ELSE UNCHANGED << target, wait_if, signals >>
  /\ UNCHANGED << engineVars, filterVars, clientVars, target0, timeout, wpc, wresult >>

InitWaiter ==
  /\ EngineIdle
  /\ FilterIdle
  /\ ClientIdle
  /\ ifs = <<>>
  /\ wait_if = FALSE
  /\ target = AnyTarget
  /\ target0 = AnyTarget
  /\ timeout = 0
  /\ wpc = "idle"
  /\ wresult = <<>>
  /\ signals = 0
  /\ emits_left = MaxEmits

NextWaiter ==
  \/ \E tgt \in WaiterTargets, ms \in WaiterTimeouts : WaitFor(tgt, ms)
  \/ WaitWake
  \/ WaitTimeout
  \/ \E node \in WaiterRecords : WaiterCallback(node)

\* The caller's thread runs: a wait that can return does return
WaitReturns == WaitWake \/ WaitTimeout

SpecWaiter == InitWaiter /\ [][NextWaiter]_vars /\ WF_vars(WaitReturns)

(***************************************************************************)
(* WatchWaiter with two callers of wait_for (device-watcher.h).  wait_if   *)
(* names the caller whose target wait_if_ points at, or is "none"; target, *)
(* target0, timeout, wpc and wresult hold one value per caller; signals is *)
(* the set of callers a notify_all has reached                             *)
(***************************************************************************)
Callers == {"a", "b"}

\* Targets of the two callers: two that records match, one that none does
CallerTargets ==
  { [AnyTarget EXCEPT !.serial = "s1"],
    [AnyTarget EXCEPT !.model = "m3"],
    [AnyTarget EXCEPT !.description = "ttyUSB1"] }

InitWaiters ==
  /\ EngineIdle
  /\ FilterIdle
  /\ ClientIdle
  /\ ifs = <<>>
  /\ wait_if = "none"
  /\ target = [c \in Callers |-> AnyTarget]
  /\ target0 = [c \in Callers |-> AnyTarget]
  /\ timeout = [c \in Callers |-> 0]
  /\ wpc = [c \in Callers |-> "idle"]
  /\ wresult = [c \in Callers |-> <<>>]
  /\ signals = {}
  /\ emits_left = MaxEmits

\* caller c calls wait_for [191-197]: the check under the lock, then the
\* registration in the one member wait_if_
WaitForBy(c, tgt, ms) ==
  /\ wpc[c] = "idle"
  /\ target0' = [target0 EXCEPT ![c] = tgt]
  /\ timeout' = [timeout EXCEPT ![c] = ms]
  /\ IF match_target(tgt, ifs) # {}
     THEN /\ \E iface \in match_target(tgt, ifs) : target' = [target EXCEPT ![c] = iface]
          /\ wpc' = [wpc EXCEPT ![c] = "done"]
          /\ wresult' = [wresult EXCEPT ![c] = <<TRUE>>]
          /\ UNCHANGED wait_if
     ELSE /\ target' = [target EXCEPT ![c] = tgt]
          /\ wait_if' = c
          /\ wpc' = [wpc EXCEPT ![c] = "waiting"]
          /\ UNCHANGED wresult
  /\ UNCHANGED << engineVars, filterVars, clientVars, ifs, signals, emits_left >>

\* the wait of caller c ends with the predicate wait_if_ == nullptr true
\* [199-212]: after a notification, or when its time has elapsed
WaitWakeBy(c) ==
  /\ wpc[c] = "waiting"
  /\ wait_if = "none"
  /\ c \in signals \/ timeout[c] >= 0
  /\ signals' = signals \ {c}
  /\ wpc' = [wpc EXCEPT ![c] = "done"]
  /\ wresult' = [wresult EXCEPT ![c] = <<TRUE>>]
  /\ UNCHANGED << engineVars, filterVars, clientVars, ifs, wait_if, target, target0,
                  timeout, emits_left >>

\* the time of caller c has elapsed with wait_if_ set [204-211]
WaitTimeoutBy(c) ==
  /\ wpc[c] = "waiting"
  /\ wait_if # "none"
  /\ timeout[c] >= 0
  /\ wait_if' = "none"
  /\ signals' = signals \ {c}
  /\ wpc' = [wpc EXCEPT ![c] = "done"]
  /\ wresult' = [wresult EXCEPT ![c] = <<FALSE>>]
  /\ UNCHANGED << engineVars, filterVars, clientVars, ifs, target, target0, timeout,
                  emits_left >>

\* the callback of the watcher [173-184] with two callers about
WaiterCallbackFor(node) ==
  /\ emits_left > 0
  /\ emits_left' = emits_left - 1
  /\ ifs' = Put(ifs, node.identity, node)
  /\ IF wait_if # "none" /\ match_target(target[wait_if], ifs') # {}
     THEN /\ \E iface \in match_target(target[wait_if], ifs') :
               target' = [target EXCEPT ![wait_if] = iface]
          /\ wait_if' = "none"
          /\ signals' = { c \in Callers : wpc[c] = "waiting" }
     ELSE UNCHANGED << target, wait_if, signals >>
  /\ UNCHANGED << engineVars, filterVars, clientVars, target0, timeout, wpc, wresult >>

NextWaiters ==
  \/ \E c \in Callers, tgt \in CallerTargets, ms \in WaiterTimeouts : WaitForBy(c, tgt, ms)
  \/ \E c \in Callers : WaitWakeBy(c)
  \/ \E c \in Callers : WaitTimeoutBy(c)
  \/ \E node \in WaiterRecords : WaiterCallbackFor(node)

SpecWaiters == InitWaiters /\ [][NextWaiters]_vars

(***************************************************************************)
(* ADB client: transport selectors and framing (co-adb-client.cc)          *)
(***************************************************************************)
MaxShortLen == 12

MAX_PAYLOAD == 1048576

Any == "Any"
Usb == "Usb"
Local == "Local"

\* adb-client.h, TransportOption: transportId is an optional, <<>> when unset
DefaultOption ==
  [serial |-> "", transportType |-> Any, transportId |-> <<>>,
   launchServerIfNeed |-> TRUE]

TransportOptions ==
  { [serial |-> sn, transportType |-> k, transportId |-> id,
     launchServerIfNeed |-> l] :
      sn \in {"", "s1"}, k \in {Any, Usb, Local},
      id \in {<<>>, <<0>>, <<12>>}, l \in BOOLEAN }

\* std::format("{}", n) of a signed integer
format_int(n) == IF n < 0 THEN "-" \o to_string(0 - n) ELSE to_string(n)

HexDigit(d) ==
  CASE d < 10 -> Digit(d)
    [] d = 10 -> "a" [] d = 11 -> "b" [] d = 12 -> "c"
    [] d = 13 -> "d" [] d = 14 -> "e" [] d = 15 -> "f"

RECURSIVE hex(_)
hex(n) == IF n < 16 THEN HexDigit(n) ELSE hex(n \div 16) \o HexDigit(n % 16)

\* std::format("{:04x}", n): lower-case base 16, padded with zeros up to a
\* width of four; a longer number is written in full
format_04x(n) ==
  LET h == hex(n) IN IF Len(h) < 4 THEN SubSeq("000", 1, 4 - Len(h)) \o h ELSE h

\* send_protocol_string: the bytes written to the socket, or the error thrown.
\* length is an unsigned int; every string here is shorter than 2^32, so the
\* conversion of its size keeps the value
send_protocol_string(str) ==
  LET length == Len(str) IN
    IF length > MAX_PAYLOAD - 4
    THEN [error |-> "message too big", bytes |-> ""]
    ELSE [error |-> "", bytes |-> format_04x(length) \o str]

\* the value of one character as a base-16 digit, -1 if it is none
HexValue(c) ==
  CASE c = "0" -> 0 [] c = "1" -> 1 [] c = "2" -> 2 [] c = "3" -> 3
    [] c = "4" -> 4 [] c = "5" -> 5 [] c = "6" -> 6 [] c = "7" -> 7
    [] c = "8" -> 8 [] c = "9" -> 9
    [] c \in {"a", "A"} -> 10 [] c \in {"b", "B"} -> 11
    [] c \in {"c", "C"} -> 12 [] c \in {"d", "D"} -> 13
    [] c \in {"e", "E"} -> 14 [] c \in {"f", "F"} -> 15
    [] OTHER -> -1

\* std::stoul(msg, nullptr, 16): the number spelled by the leading base-16
\* digits of msg, -1 (std::invalid_argument) when msg starts with none
RECURSIVE stoul_from(_, _, _)
stoul_from(msg, i, acc) ==
  IF i > Len(msg) \/ HexValue(SubSeq(msg, i, i)) < 0
  THEN acc
  ELSE stoul_from(msg, i + 1,
                  (IF acc < 0 THEN 0 ELSE acc) * 16 + HexValue(SubSeq(msg, i, i)))

stoul(msg) == stoul_from(msg, 1, -1)

\* read_protocol_string on a socket that delivers the bytes of stream and is
\* then closed: four bytes, their value in base 16, then that many bytes
read_protocol_string(stream) ==
  IF Len(stream) < 4
  THEN [error |-> "eof", msg |-> ""]
  ELSE LET len == stoul(SubSeq(stream, 1, 4)) IN
         IF len < 0 THEN [error |-> "invalid_argument", msg |-> ""]
         ELSE IF Len(stream) < 4 + len THEN [error |-> "eof", msg |-> ""]
         ELSE [error |-> "", msg |-> SubSeq(stream, 5, 4 + len)]

\* switch_socket_transport: the selector it hands to send_protocol_string and
\* whether it then reads the transport id from the socket
switch_socket_transport(option) ==
  [sent |->
     IF option.transportId # <<>>
     THEN "host:transport-id:" \o format_int(option.transportId[1])
     ELSE IF option.serial # "" THEN "host:tport:serial:" \o option.serial
     ELSE IF option.transportType = Usb THEN "host:tport:usb"
     ELSE IF option.transportType = Local THEN "host:tport:local"
     ELSE "host:tport:any",
   reads_id |-> option.transportId = <<>>]

format_host_command_SerialFirst(command, option) ==
  IF option.serial # ""
  THEN "host-serial:" \o option.serial \o ":" \o command
  ELSE IF option.transportId # <<>>
  THEN "host-transport-id:" \o format_int(option.transportId[1]) \o ":" \o command
  ELSE IF option.transportType = Usb THEN "host-usb:" \o command
  ELSE IF option.transportType = Local THEN "host-local:" \o command
  ELSE "host:" \o command

format_host_command(command, option) ==
  IF option.transportId # <<>>
  THEN "host-transport-id:" \o format_int(option.transportId[1]) \o ":" \o command
  ELSE IF option.serial # ""
  THEN "host-serial:" \o option.serial \o ":" \o command
  ELSE IF option.transportType = Usb THEN "host-usb:" \o command
  ELSE IF option.transportType = Local THEN "host-local:" \o command
  ELSE "host:" \o command

\* a string of n characters c
RECURSIVE Fill(_, _)
Fill(c, n) ==
  IF n = 0 THEN ""
  ELSE LET h == Fill(c, n \div 2) IN IF n % 2 = 1 THEN h \o h \o c ELSE h \o h

\* The lengths of the strings handed to send_protocol_string: the short ones,
\* those around a change of the number of base-16 digits, and the two around
\* the largest length that is accepted
ServiceLengths ==
  (0..MaxShortLen)
    \cup {255, 256, 4095, 4096, 65535, 65536, MAX_PAYLOAD - 4, MAX_PAYLOAD - 3}

Commands == {"features", "get-state", "wait-for-usb-device"}

Services ==
  {"host:devices-l", "shell:ls"} \cup Commands
    \cup { Fill(c, n) : c \in {"x", "0"}, n \in ServiceLengths }

InitProtocol ==
  /\ EngineIdle
  /\ FilterIdle
  /\ WaiterIdle
  /\ ConnIdle
  /\ SessionIdle
  /\ \/ cl_option \in TransportOptions /\ cl_service \in Commands
     \/ cl_option = DefaultOption /\ cl_service \in Services
  /\ cl_selector = <<>>
  /\ cl_command = <<>>
  /\ cl_wire = <<>>
  /\ cl_read = <<>>

\* connect line 330: the transport is selected
SwitchSocketTransport ==
  /\ cl_selector = <<>>
  /\ cl_selector' = <<switch_socket_transport(cl_option)>>
  /\ UNCHANGED << engineVars, filterVars, waiterVars, connVars, sessionVars, cl_option,
                  cl_service, cl_command, cl_wire, cl_read >>

\* co_command_query line 508, co_command line 532: the host command is built
FormatHostCommand ==
  /\ cl_command = <<>>
  /\ cl_command' = <<format_host_command(cl_service, cl_option)>>
  /\ UNCHANGED << engineVars, filterVars, waiterVars, connVars, sessionVars, cl_option,
                  cl_service, cl_selector, cl_wire, cl_read >>

\* connect line 336: the service string is written to the socket
SendProtocolString ==
  /\ cl_wire = <<>>
  /\ cl_wire' = <<send_protocol_string(cl_service)>>
  /\ UNCHANGED << engineVars, filterVars, waiterVars, connVars, sessionVars, cl_option,
                  cl_service, cl_selector, cl_command, cl_read >>

\* the peer reads what was written with read_protocol_string
ReadProtocolString ==
  /\ cl_wire # <<>>
  /\ cl_wire[1].error = ""
  /\ cl_read = <<>>
  /\ cl_read' = <<read_protocol_string(cl_wire[1].bytes)>>
  /\ UNCHANGED << engineVars, filterVars, waiterVars, connVars, sessionVars, cl_option,
                  cl_service, cl_selector, cl_command, cl_wire >>

NextProtocol ==
  \/ SwitchSocketTransport
  \/ FormatHostCommand
  \/ SendProtocolString
  \/ ReadProtocolString

SpecProtocol == InitProtocol /\ [][NextProtocol]_vars

(***************************************************************************)
(* ADB client: connecting and launching the server (co-adb-client.cc)      *)
(***************************************************************************)
MaxCalls == 3

\* The operations of the client that reach connect, and the function of the
\* three below them that each one goes through
Operations == {"query", "command_query", "command", "get_features", "wait_device"}

Through(op) ==
  CASE op = "get_features" -> "command_query"
    [] op = "wait_device" -> "command"
    [] OTHER -> op

\* The TransportOption that connect is called with: co_query hands on its
\* own, co_command_query and co_command hand on {}
connect_option(op, option) ==
  IF Through(op) = "query" THEN option ELSE DefaultOption

\* What the caller gets when connect throws connection_error: co_query and
\* co_command_query catch it and return "", whatever the option says;
\* co_command has no handler
on_connection_error(op, option) ==
  IF Through(op) \in {"query", "command_query"}
  THEN [raised |-> "", value |-> ""]
  ELSE [raised |-> "connection_error", value |-> ""]

\* What the caller gets when the server has answered
on_reply(op, status, reply) ==
  IF status = "FAIL" THEN [raised |-> "adb_error", value |-> ""]
  ELSE IF status = "EOF" THEN [raised |-> "system_error", value |-> ""]
  ELSE IF Through(op) = "command" THEN [raised |-> "", value |-> "void"]
  ELSE [raised |-> "", value |-> reply]

NoCall ==
  [op |-> "none", option |-> DefaultOption, conn_option |-> DefaultOption,
   pc |-> "idle", connects |-> 0, last |-> "none", launch_code |-> <<>>,
   thrown |-> "", result |-> <<>>]

InitClient ==
  /\ EngineIdle
  /\ FilterIdle
  /\ WaiterIdle
  /\ ProtoIdle
  /\ SessionIdle
  /\ serverLaunchTried = FALSE
  /\ listening \in BOOLEAN
  /\ launches = 0
  /\ call = NoCall
  /\ calls_left = MaxCalls

\* One of the operations is called; it calls connect
ClientCall(op, option) ==
  /\ call.pc \in {"idle", "done"}
  /\ calls_left > 0
  /\ calls_left' = calls_left - 1
  /\ call' = [NoCall EXCEPT !.op = op, !.option = option,
                            !.conn_option = connect_option(op, option),
                            !.pc = "connect"]
  /\ UNCHANGED << engineVars, filterVars, waiterVars, protoVars, sessionVars,
                  serverLaunchTried, listening, launches >>

\* connect line 315: whether a failed async_connect is followed by a launch
MayLaunch_IgnoresGuard(option, tried) == option.launchServerIfNeed

MayLaunch(option, tried) == option.launchServerIfNeed /\ ~tried

\* connect lines 310-319: async_connect succeeds, or fails and either throws
\* connection_error or sets the guard
AsyncConnect ==
  /\ call.pc = "connect"
  /\ IF listening
     THEN /\ call' = [call EXCEPT !.pc = "connected", !.last = "ok",
                                  !.connects = @ + 1]
          /\ UNCHANGED serverLaunchTried
     ELSE IF MayLaunch(call.conn_option, serverLaunchTried)
     THEN /\ serverLaunchTried' = TRUE
          /\ call' = [call EXCEPT !.pc = "launch", !.last = "failed",
                                  !.connects = @ + 1]
     ELSE /\ call' = [call EXCEPT !.pc = "done", !.last = "failed",
                                  !.connects = @ + 1,
                                  !.thrown = "connection_error",
                                  !.result = <<on_connection_error(call.op, call.option)>>]
          /\ UNCHANGED serverLaunchTried
  /\ UNCHANGED << engineVars, filterVars, waiterVars, protoVars, sessionVars, listening,
                  launches, calls_left >>

\* connect lines 321-326: launch_server reports r; the server listens or not
LaunchServer(r, up) ==
  /\ call.pc = "launch"
  /\ launches' = launches + 1
  /\ listening' = (listening \/ (r = 0 /\ up))
  /\ IF r # 0
     THEN call' = [call EXCEPT !.pc = "done", !.launch_code = <<r>>,
                               !.thrown = "connection_error",
                               !.result = <<on_connection_error(call.op, call.option)>>]
     ELSE call' = [call EXCEPT !.pc = "connect", !.launch_code = <<r>>]
  /\ UNCHANGED << engineVars, filterVars, waiterVars, protoVars, sessionVars,
                  serverLaunchTried, calls_left >>

\* connect lines 329-340 and the rest of the operation: the server answers
\* OKAY and a reply, or FAIL, or the socket is closed under the read
ServerReplies(status, reply) ==
  /\ call.pc = "connected"
  /\ call' = [call EXCEPT !.pc = "done",
                          !.thrown = on_reply(call.op, status, reply).raised,
                          !.result = <<on_reply(call.op, status, reply)>>]
  /\ UNCHANGED << engineVars, filterVars, waiterVars, protoVars, sessionVars,
                  serverLaunchTried, listening, launches, calls_left >>

\* The server is stopped by someone (co_kill, or from outside the process)
ServerStops ==
  /\ listening
  /\ listening' = FALSE
  /\ UNCHANGED << engineVars, filterVars, waiterVars, protoVars, sessionVars,
                  serverLaunchTried, launches, call, calls_left >>

LaunchOptions ==
  { [DefaultOption EXCEPT !.launchServerIfNeed = l, !.serial = sn] :
      l \in BOOLEAN, sn \in {"", "s1"} }

NextClient ==
  \/ \E op \in Operations, option \in LaunchOptions : ClientCall(op, option)
  \/ AsyncConnect
  \/ \E r \in {0, 1}, up \in BOOLEAN : LaunchServer(r, up)
  \/ \E status \in {"OKAY", "FAIL", "EOF"}, reply \in {"", "data"} :
       ServerReplies(status, reply)
  \/ ServerStops

SpecClient == InitClient /\ [][NextClient]_vars

(***************************************************************************)
(* ADB client: co_command and its timeout (co-adb-client.cc)               *)
(***************************************************************************)
\* What the server may put on the socket after the request: a status and,
\* after FAIL, a length-prefixed message
FailMessages == {"device offline", "closed"}

StatusReplies ==
  { [status |-> "OKAY", msg |-> ""], [status |-> "WHAT", msg |-> ""] }
    \cup { [status |-> "FAIL", msg |-> m] : m \in FailMessages }

\* adb_status: what it throws for the four bytes it has read ("" for none)
adb_status(reply) ==
  CASE reply.status = "OKAY" -> ""
    [] reply.status = "FAIL" -> reply.msg
    [] OTHER -> "protocol fault"

\* co_command line 558: what the handler of the timeout branch throws for an
\* exception of adb_status
rethrown(what) == "command timeout"

NoCommand ==
  [op |-> "none", armed |-> FALSE, co |-> "idle", wd |-> "none", executed |-> FALSE,
   elapsed |-> FALSE, socket |-> "open", wire |-> <<>>, read |-> <<>>,
   arrived_in_time |-> FALSE, read_in_time |-> FALSE, set_in_time |-> FALSE,
   closed_by_watchdog |-> FALSE, result |-> <<>>]

InitCommand ==
  /\ EngineIdle
  /\ FilterIdle
  /\ WaiterIdle
  /\ ProtoIdle
  /\ ConnIdle
  /\ cmd = NoCommand
  /\ shell = <<>>
  /\ sync = <<>>
  /\ race = <<>>

\* co_command lines 530-549: connect has returned; with a timeout the
\* watchdog thread is started; the coroutine awaits adb_status
CommandStart(op, armed) ==
  /\ cmd.co = "idle"
  /\ cmd' = [cmd EXCEPT !.op = op, !.armed = armed, !.co = "status",
                        !.wd = IF armed THEN "waiting" ELSE "none"]
  /\ UNCHANGED << engineVars, filterVars, waiterVars, protoVars, connVars,
                  shell, sync, race >>

\* The server's answer reaches the socket
StatusArrives(reply) ==
  /\ cmd.co = "status"
  /\ cmd.wire = <<>>
  /\ cmd.socket = "open"
  /\ cmd' = [cmd EXCEPT !.wire = <<reply>>, !.arrived_in_time = ~cmd.elapsed]
  /\ UNCHANGED << engineVars, filterVars, waiterVars, protoVars, connVars,
                  shell, sync, race >>

\* The time given to wait_for has passed
TimeoutElapses ==
  /\ cmd.armed
  /\ cmd.wd = "waiting"
  /\ ~cmd.elapsed
  /\ cmd' = [cmd EXCEPT !.elapsed = TRUE]
  /\ UNCHANGED << engineVars, filterVars, waiterVars, protoVars, connVars,
                  shell, sync, race >>

\* co_command line 552 (561 without a timeout): adb_status returns or throws.
\* aborted: the read ends with an error because the socket was closed; a
\* status that had arrived before the close may still be delivered
AdbStatus(aborted) ==
  /\ cmd.co = "status"
  /\ IF aborted THEN cmd.socket = "closed"
                ELSE cmd.wire # <<>>
  /\ LET reply == IF aborted THEN [status |-> "aborted", msg |-> ""]
                             ELSE cmd.wire[1]
         what == IF aborted THEN "operation aborted" ELSE adb_status(reply)
     IN cmd' =
          [cmd EXCEPT
             !.read = <<reply>>,
             !.read_in_time = ~cmd.elapsed,
             !.co = IF ~cmd.armed THEN "done"
                    ELSE IF what = "" THEN "got" ELSE "caught",
             !.result = IF cmd.armed THEN <<>> ELSE <<what>>]
  /\ UNCHANGED << engineVars, filterVars, waiterVars, protoVars, connVars,
                  shell, sync, race >>

\* co_command lines 553-554: executed = true; cond.notify_one()
SetExecuted ==
  /\ cmd.co = "got"
  /\ cmd' = [cmd EXCEPT !.executed = TRUE, !.co = "join",
                        !.set_in_time = ~cmd.elapsed]
  /\ UNCHANGED << engineVars, filterVars, waiterVars, protoVars, connVars,
                  shell, sync, race >>

\* co_command line 546: whether the watchdog closes the socket
ShouldClose_Always(executed) == TRUE

ShouldClose(executed) == ~executed

\* co_command lines 542-549: wait_for returns when executed is set or the
\* time has passed; the socket is closed if executed is not set
WatchdogRuns ==
  /\ cmd.wd = "waiting"
  /\ cmd.executed \/ cmd.elapsed
  /\ cmd' = [cmd EXCEPT
               !.wd = "exited",
               !.socket = IF ShouldClose(cmd.executed) THEN "closed" ELSE @,
               !.closed_by_watchdog = ShouldClose(cmd.executed)]
  /\ UNCHANGED << engineVars, filterVars, waiterVars, protoVars, connVars,
                  shell, sync, race >>

\* co_command line 555: th.join() after the status was OKAY
JoinAfterStatus ==
  /\ cmd.co = "join"
  /\ cmd.wd = "exited"
  /\ cmd' = [cmd EXCEPT !.co = "done", !.result = <<"">>]
  /\ UNCHANGED << engineVars, filterVars, waiterVars, protoVars, connVars,
                  shell, sync, race >>

\* co_command lines 556-559: the handler joins the watchdog and throws
JoinAfterException ==
  /\ cmd.co = "caught"
  /\ cmd.wd = "exited"
  /\ cmd' = [cmd EXCEPT !.co = "done",
                        !.result = <<rethrown(adb_status(cmd.read[1]))>>]
  /\ UNCHANGED << engineVars, filterVars, waiterVars, protoVars, connVars,
                  shell, sync, race >>

NextCommand ==
  \/ \E op \in {"command", "wait_device"}, armed \in BOOLEAN :
       CommandStart(op, armed)
  \/ \E reply \in StatusReplies : StatusArrives(reply)
  \/ TimeoutElapses
  \/ \E aborted \in BOOLEAN : AdbStatus(aborted)
  \/ SetExecuted
  \/ WatchdogRuns
  \/ JoinAfterStatus
  \/ JoinAfterException

\* Both threads run
CommandThreads ==
  \/ \E aborted \in BOOLEAN : AdbStatus(aborted)
  \/ SetExecuted
  \/ WatchdogRuns
  \/ JoinAfterStatus
  \/ JoinAfterException

SpecCommand ==
  InitCommand /\ [][NextCommand]_vars /\ WF_vars(CommandThreads)
     /\ WF_vars(TimeoutElapses)

(***************************************************************************)
(* ADB client: read_shell_output, shell protocol v2 (co-adb-client.cc)     *)
(***************************************************************************)
\* kBufferSize, scaled down from 40960 so that payloads longer than the
\* buffer are within reach; the largest payload and the number of packets
BufferSize == 8

MaxPayload == 7

MaxPackets == 3

kIdStdin == 0
kIdStdout == 1
kIdStderr == 2
kIdExit == 3

kHeaderSize == 1 + 4

\* data_capacity(): the room behind the header
data_capacity == BufferSize - kHeaderSize

\* the four bytes of a uint32_t in memory, lowest first
le32(n) ==
  << n % 256, (n \div 256) % 256, (n \div 65536) % 256, (n \div 16777216) % 256 >>

\* memcpy(&packet_length, &buffer[1], 4)
packet_length(buffer) ==
  buffer[2] + 256 * buffer[3] + 65536 * buffer[4] + 16777216 * buffer[5]

\* A payload of n bytes; its bytes run through 0..3, the values of the ids
Payload(n, first) == [i \in 1..n |-> (first + i - 1) % 4]

\* The packets the server sends: any of stdin, stdout, stderr packets, then
\* one exit packet whose payload holds the exit code
DataPackets ==
  { [id |-> id, payload |-> Payload(n, 0)] :
      id \in {kIdStdin, kIdStdout, kIdStderr}, n \in 0..MaxPayload }

ExitPackets ==
  { [id |-> kIdExit, payload |-> Payload(n, first)] :
      n \in 1..2, first \in {0, 2} }

RECURSIVE PacketLists(_)
PacketLists(n) ==
  IF n = 1 THEN { <<e>> : e \in ExitPackets }
  ELSE PacketLists(n - 1)
         \cup { <<d>> \o l : d \in DataPackets,
                             l \in { m \in PacketLists(n - 1) : Len(m) = n - 1 } }

\* The bytes of the packets on the socket
RECURSIVE Bytes(_)
Bytes(packets) ==
  IF packets = <<>> THEN <<>>
  ELSE <<Head(packets).id>> \o le32(Len(Head(packets).payload))
         \o Head(packets).payload \o Bytes(Tail(packets))

Min(a, b) == IF a < b THEN a ELSE b

InitShell ==
  /\ EngineIdle
  /\ FilterIdle
  /\ WaiterIdle
  /\ ProtoIdle
  /\ ConnIdle
  /\ cmd = <<>>
  /\ sync = <<>>
  /\ race = <<>>
  /\ \E packets \in PacketLists(MaxPackets) :
       shell = [packets |-> packets, stream |-> Bytes(packets), pos |-> 0,
                buffer |-> [i \in 1..BufferSize |-> -1], bytes_left |-> 0,
                output |-> <<>>, errout |-> <<>>, exitCode |-> 0,
                headers |-> {}, pc |-> "loop"]

\* read_shell_output line 400: whether a header is read
NeedHeader_Always(bytes_left) == TRUE

NeedHeader(bytes_left) == bytes_left = 0

\* read_shell_output lines 398-435: one turn of the loop
ReadShellPacket ==
  /\ shell.pc = "loop"
  /\ LET header == NeedHeader(shell.bytes_left)
         buffer1 == IF header
                    THEN SubSeq(shell.stream, 1, kHeaderSize)
                           \o SubSeq(shell.buffer, kHeaderSize + 1, BufferSize)
                    ELSE shell.buffer
         stream1 == IF header
                    THEN SubSeq(shell.stream, kHeaderSize + 1, Len(shell.stream))
                    ELSE shell.stream
         left1 == IF header THEN packet_length(buffer1) ELSE shell.bytes_left
         data_length == Min(left1, data_capacity)
         buffer2 == SubSeq(buffer1, 1, kHeaderSize) \o SubSeq(stream1, 1, data_length)
                      \o SubSeq(buffer1, kHeaderSize + data_length + 1, BufferSize)
         data == SubSeq(buffer2, kHeaderSize + 1, kHeaderSize + data_length)
         id == buffer2[1]
     IN /\ header => Len(shell.stream) >= kHeaderSize
        /\ Len(stream1) >= data_length
        /\ shell' =
             [shell EXCEPT
                !.stream = SubSeq(stream1, data_length + 1, Len(stream1)),
                !.pos = @ + (IF header THEN kHeaderSize ELSE 0) + data_length,
                !.headers = IF header THEN @ \cup {shell.pos} ELSE @,
                !.buffer = buffer2,
                !.bytes_left = left1 - data_length,
                !.output = IF id = kIdStdout THEN @ \o data ELSE @,
                !.errout = IF id = kIdStderr THEN @ \o data ELSE @,
                !.exitCode = IF id = kIdExit THEN buffer2[kHeaderSize + 1] % 256 ELSE @,
                !.pc = IF id = kIdExit THEN "done" ELSE "loop"]
  /\ UNCHANGED << engineVars, filterVars, waiterVars, protoVars, connVars,
                  cmd, sync, race >>

NextShell == ReadShellPacket

SpecShell == InitShell /\ [][NextShell]_vars

(***************************************************************************)
(* ADB client: sync LIST (co-adb-client.cc)                                *)
(***************************************************************************)
MaxEntries == 3

\* The names the server may send in a directory entry; the last one has 256
\* characters
DentNames == {".", "..", "a", ".b", Fill("n", 256)}

\* What the server streams before DONE: entries of either version
Dents ==
  { [id |-> id, name |-> n, namelen |-> Len(n)] :
      id \in {"DENT", "DNT2"}, n \in DentNames }

RECURSIVE DentLists(_)
DentLists(n) ==
  IF n = 0 THEN { <<>> }
  ELSE DentLists(n - 1)
         \cup { <<d>> \o l : d \in Dents,
                             l \in { m \in DentLists(n - 1) : Len(m) = n - 1 } }

InitSyncList ==
  /\ EngineIdle
  /\ FilterIdle
  /\ WaiterIdle
  /\ ProtoIdle
  /\ ConnIdle
  /\ cmd = <<>>
  /\ shell = <<>>
  /\ race = <<>>
  /\ \E has_ls_v2 \in BOOLEAN, dents \in DentLists(MaxEntries) :
       sync = [op |-> "list", has_ls_v2 |-> has_ls_v2, sent |-> <<>>,
               dents |-> dents, stream |-> dents, out |-> <<>>,
               pc |-> "request", result |-> <<>>]

\* sync_list line 1165: the LIST request of the version the server supports
SyncListRequest ==
  /\ sync.op = "list"
  /\ sync.pc = "request"
  /\ sync' = [sync EXCEPT
                !.sent = <<IF sync.has_ls_v2 THEN "LIS2" ELSE "LIST">>,
                !.pc = "finish_ls"]
  /\ UNCHANGED << engineVars, filterVars, waiterVars, protoVars, connVars,
                  cmd, shell, race >>

\* co_sync_list lines 1679-1683: what the caller gets from the list that
\* sync_list has returned
listed(out) == out

\* sync_finish_ls lines 1127-1158: one turn of the loop; after the last entry
\* the server sends DONE and the list goes back to the caller of
\* co_sync_list
SyncFinishLs ==
  /\ sync.op = "list"
  /\ sync.pc = "finish_ls"
  /\ IF sync.stream = <<>>
     THEN sync' = [sync EXCEPT !.pc = "done",
                               !.result = <<[error |-> "", list |-> listed(sync.out)]>>]
     ELSE LET dent == Head(sync.stream)
              expected_id == IF sync.has_ls_v2 THEN "DNT2" ELSE "DENT"
          IN IF dent.id # expected_id
             THEN sync' = [sync EXCEPT
                             !.pc = "done",
                             !.result = <<[error |-> "unexpected dent id", list |-> <<>>]>>]
             ELSE IF dent.namelen > 255
             THEN sync' = [sync EXCEPT
                             !.pc = "done",
                             !.result = <<[error |-> "dent namelen too long", list |-> <<>>]>>]
             ELSE sync' = [sync EXCEPT
                             !.stream = Tail(@),
                             !.out = Append(@, [name |-> dent.name])]
  /\ UNCHANGED << engineVars, filterVars, waiterVars, protoVars, connVars,
                  cmd, shell, race >>

NextSyncList == SyncListRequest \/ SyncFinishLs

SpecSyncList == InitSyncList /\ [][NextSyncList]_vars

(***************************************************************************)
(* ADB client: sync RECV into a file (co-adb-client.cc)                    *)
(***************************************************************************)
MaxChunks == 3

SYNC_DATA_MAX == 65536

\* What the server may stream after a RECV request: DATA with its payload
\* (one of them of exactly SYNC_DATA_MAX bytes), a DATA header that announces
\* more than SYNC_DATA_MAX bytes, or FAIL
RecvMessages ==
  { [id |-> "DATA", length |-> Len(payload), payload |-> payload] :
      payload \in {"", "ab", "c", Fill("d", SYNC_DATA_MAX)} }
    \cup { [id |-> "DATA", length |-> SYNC_DATA_MAX + 1, payload |-> ""],
           [id |-> "FAIL", length |-> 2, payload |-> "no"] }

RECURSIVE RecvStreams(_)
RecvStreams(n) ==
  IF n = 0 THEN { <<>> }
  ELSE RecvStreams(n - 1)
         \cup { <<m>> \o l : m \in RecvMessages,
                             l \in { k \in RecvStreams(n - 1) : Len(k) = n - 1 } }

\* The local file system at lpath: <<>> when no file exists, else the content.
\* The stream ends with DONE, or the connection is lost where it ends
InitSyncRecv ==
  /\ EngineIdle
  /\ FilterIdle
  /\ WaiterIdle
  /\ ProtoIdle
  /\ ConnIdle
  /\ cmd = <<>>
  /\ shell = <<>>
  /\ race = <<>>
  /\ \E msgs \in RecvStreams(MaxChunks), ending \in {"DONE", "EOF"},
        before \in {<<>>, <<"old">>} :
       sync = [op |-> "recv", sent |-> <<>>, msgs |-> msgs, ending |-> ending,
               stream |-> msgs, file |-> before, opened |-> FALSE,
               written |-> 0, write_failed |-> FALSE,
               pc |-> "request", result |-> <<>>]

\* sync_recv lines 1221-1224: std::filesystem::remove(lpath, ec) on a file
\* that exists in a directory the process has just created it in
remove_Fails(file) == file

remove(file) == <<>>

\* sync_recv lines 1198-1200: the RECV request is sent and the local file is
\* opened with create | truncate | write_only, or the open fails
SyncRecvOpen(open_ok) ==
  /\ sync.op = "recv"
  /\ sync.pc = "request"
  /\ IF open_ok
     THEN sync' = [sync EXCEPT !.sent = <<"RECV">>, !.file = <<"">>,
                               !.opened = TRUE, !.pc = "loop"]
     ELSE sync' = [sync EXCEPT !.sent = <<"RECV">>, !.pc = "done",
                               !.result = <<"open failed">>]
  /\ UNCHANGED << engineVars, filterVars, waiterVars, protoVars, connVars,
                  cmd, shell, race >>

\* sync_recv lines 1203-1225: one turn of the loop; an exception is caught,
\* the file is removed and the exception is thrown again
SyncRecvChunk(write_ok) ==
  /\ sync.op = "recv"
  /\ sync.pc = "loop"
  /\ LET failed(what) ==
           [sync EXCEPT !.pc = "done", !.file = remove(sync.file),
                        !.result = <<what>>]
     IN IF sync.stream = <<>>
        THEN /\ write_ok
             /\ sync' = IF sync.ending = "DONE"
                        THEN [sync EXCEPT !.pc = "done", !.result = <<"">>]
                        ELSE failed("read failed")
        ELSE LET data == Head(sync.stream) IN
               IF data.id # "DATA"
               THEN write_ok /\ sync' = failed("bad sync recv id")
               ELSE IF data.length > SYNC_DATA_MAX
               THEN write_ok /\ sync' = failed("sync recv size too large")
               ELSE IF ~write_ok
               THEN sync' = [failed("write failed") EXCEPT !.write_failed = TRUE]
               ELSE sync' = [sync EXCEPT
                               !.stream = Tail(@),
                               !.file = <<@[1] \o data.payload>>,
                               !.written = @ + 1]
  /\ UNCHANGED << engineVars, filterVars, waiterVars, protoVars, connVars,
                  cmd, shell, race >>

NextSyncRecv ==
  \/ \E open_ok \in BOOLEAN : SyncRecvOpen(open_ok)
  \/ \E write_ok \in BOOLEAN : SyncRecvChunk(write_ok)

SpecSyncRecv == InitSyncRecv /\ [][NextSyncRecv]_vars

(***************************************************************************)
(* ADB client: sync pull and push of several sources and of directories    *)
(* (co-adb-client.cc)                                                      *)
(***************************************************************************)
\* std::string_view::rfind('/'): the last position of a slash, 0 for npos
RECURSIVE rfind_from(_, _)
rfind_from(path, i) ==
  IF i = 0 THEN 0
  ELSE IF SubSeq(path, i, i) = "/" THEN i
  ELSE rfind_from(path, i - 1)

rfind(path) == rfind_from(path, Len(path))

back(path) == SubSeq(path, Len(path), Len(path))

posix_dirname(path) ==
  LET p1 == IF path # "" /\ back(path) = "/"
            THEN SubSeq(path, 1, Len(path) - 1) ELSE path
      pos == rfind(p1)
      p2 == IF pos # 0 THEN SubSeq(p1, 1, pos) ELSE p1
  IN IF p2 = "" THEN "/" ELSE p2

posix_basename(path) ==
  LET pos == rfind(path)
  IN IF pos = 0 THEN path ELSE SubSeq(path, pos + 1, Len(path))

posix_join(path, name) ==
  (IF back(path) # "/" THEN path \o "/" ELSE path) \o name

\* std::filesystem::path on a POSIX host: operator/ and parent_path
path_append(p, q) ==
  IF q # "" /\ SubSeq(q, 1, 1) = "/" THEN q
  ELSE IF p # "" /\ back(p) # "/" THEN p \o "/" \o q
  ELSE p \o q

parent_path(p) ==
  LET pos == rfind(p)
  IN IF pos = 0 THEN ""
     ELSE IF pos = 1 THEN "/"
     ELSE SubSeq(p, 1, pos - 1)

\* The directory or file a path names: a slash at its end makes no
\* difference to the file system
RECURSIVE Named(_)
Named(p) ==
  IF Len(p) > 1 /\ back(p) = "/" THEN Named(SubSeq(p, 1, Len(p) - 1)) ELSE p

\* std::filesystem::create_directories: the directory and its ancestors
RECURSIVE create_directories(_)
create_directories(p) ==
  LET n == Named(p)
  IN IF n \in {"", "/"} THEN {}
     ELSE {n} \cup create_directories(parent_path(n))

MaxSources == 2

is_root_dir(path) == \A i \in 1..Len(path) : SubSeq(path, i, i) = "/"

\* The files of the device: /r holds the file f.txt and the directory a;
\* a holds any of x.txt, the directory b (with or without c.txt) and the
\* symbolic link l to a regular file
RemoteBase ==
  { [path |-> "/r", mode |-> "DIR", follows |-> "DIR"],
    [path |-> "/r/f.txt", mode |-> "REG", follows |-> "REG"],
    [path |-> "/r/a", mode |-> "DIR", follows |-> "DIR"] }

RemoteX == [path |-> "/r/a/x.txt", mode |-> "REG", follows |-> "REG"]
RemoteB == [path |-> "/r/a/b", mode |-> "DIR", follows |-> "DIR"]
RemoteC == [path |-> "/r/a/b/c.txt", mode |-> "REG", follows |-> "REG"]
RemoteL == [path |-> "/r/a/l", mode |-> "LNK", follows |-> "REG"]

RemoteTrees ==
  { RemoteBase \cup opt : opt \in
      { o \in SUBSET {RemoteX, RemoteB, RemoteC, RemoteL} :
          RemoteC \in o => RemoteB \in o } }

RemoteNames == << "x.txt", "b", "c.txt", "l" >>

RemoteSources == {"/r/f.txt", "/r/a", "/r/none"}

RemoteEntry(remote, path) ==
  IF \E n \in remote : n.path = Named(path)
  THEN CHOOSE n \in remote : n.path = Named(path)
  ELSE [path |-> Named(path), mode |-> "NONE", follows |-> "NONE"]

\* The files of the host: the directory L with the file L/file, the
\* directory S with f.txt, d (holding g.txt) and the empty directory e
LocalFs ==
  [dirs |-> {"L", "S", "S/d", "S/e"},
   files |-> {"L/file", "S/f.txt", "S/d/g.txt"}]

LocalSources == {"S/f.txt", "S/d", "S/e", "S/none"}
LocalDestinations == {"L", "L/new", "M/new", "L/file"}
RemoteDestinations == {"/r/a", "/r/f.txt", "/r/none", "/r/none/"}

RECURSIVE SourceLists(_, _)
SourceLists(S, n) ==
  IF n = 0 THEN {}
  ELSE {<< x >> : x \in S}
       \cup {<< x >> \o l : x \in S, l \in SourceLists(S, n - 1)}

\* std::filesystem::exists and is_directory, and stat of a host path
fs_exists(local, p) ==
  IF p # "" /\ back(p) = "/" THEN Named(p) \in local.dirs
  ELSE p \in local.dirs \cup local.files

fs_is_directory(local, p) == Named(p) \in local.dirs

fs_mode(local, p) ==
  IF p \in local.dirs THEN "DIR"
  ELSE IF p \in local.files THEN "REG" ELSE "NONE"

\* sync_stat [1099-1117]: the request(s) written, whether it throws and the
\* mode it returns; a version 1 stat never throws for a name that is
\* missing, and takes every symbolic link for a directory because the
\* second lstat does not throw either
sync_stat(remote, path, have_stat_v2) ==
  LET n == RemoteEntry(remote, path)
  IN IF have_stat_v2
     THEN [reqs |-> << [id |-> "STA2", path |-> path] >>,
           thrown |-> n.mode = "NONE",
           mode |-> n.follows]
     ELSE IF n.mode = "LNK"
     THEN [reqs |-> << [id |-> "STAT", path |-> path],
                       [id |-> "STAT", path |-> path \o "/"] >>,
           thrown |-> FALSE,
           mode |-> "DIR"]
     ELSE [reqs |-> << [id |-> "STAT", path |-> path] >>,
           thrown |-> FALSE,
           mode |-> n.mode]

\* sync_list [1163-1171] with the entries the device sends for a directory
sync_list(remote, rpath) ==
  IF RemoteEntry(remote, rpath).mode # "DIR" THEN << >>
  ELSE LET there(nm) ==
             RemoteEntry(remote, posix_join(Named(rpath), nm)).mode # "NONE"
           names == << ".", ".." >> \o SelectSeq(RemoteNames, there)
       IN [i \in 1..Len(names) |->
             [name |-> names[i],
              mode |-> IF names[i] \in {".", ".."} THEN "DIR"
                       ELSE RemoteEntry(remote,
                                       posix_join(Named(rpath), names[i])).mode]]

copyinfo(local_path, remote_path, name, mode) ==
  LET r == posix_join(remote_path, name)
  IN [lpath |-> path_append(local_path, name),
      rpath |-> IF mode = "DIR" /\ back(r) # "/" THEN r \o "/" ELSE r,
      mode |-> mode]

RECURSIVE remote_build_list(_, _, _, _)
RECURSIVE remote_build_sublists(_, _, _)
\* remote_build_list [1435-1496]: the work list and the requests written
remote_build_list(remote, rpath, lpath, have_stat_v2) ==
  LET sentinel == copyinfo(parent_path(lpath), posix_dirname(rpath),
                           posix_basename(rpath), "DIR")
      all == sync_list(remote, rpath)
      NotDot(item) == item.name \notin {".", ".."}
      items == SelectSeq(all, NotDot)
      ci(item) == copyinfo(lpath, rpath, item.name, item.mode)
      st(item) == sync_stat(remote, ci(item).rpath, have_stat_v2)
      IsDir(item) ==
        \/ item.mode = "DIR"
        \/ item.mode = "LNK" /\ ~st(item).thrown /\ st(item).mode = "DIR"
      IsFile(item) ==
        \/ item.mode = "REG"
        \/ item.mode = "LNK" /\ ~st(item).thrown /\ st(item).mode # "DIR"
      IsLink(item) == item.mode = "LNK"
      Cis(seq) == [i \in 1..Len(seq) |-> ci(seq[i])]
      links == SelectSeq(items, IsLink)
      RECURSIVE StatReqs(_)
      StatReqs(seq) ==
        IF seq = << >> THEN << >>
        ELSE st(Head(seq)).reqs \o StatReqs(Tail(seq))
      dirlist == Cis(SelectSeq(items, IsDir))
      sub == remote_build_sublists(remote, dirlist, have_stat_v2)
  IN [file_list |-> << sentinel >> \o Cis(SelectSeq(items, IsFile))
                      \o sub.file_list,
      reqs |-> << [id |-> "LIST", path |-> rpath] >> \o StatReqs(links)
                 \o sub.reqs]

\* [1482-1493]: the directories found, the last one first
remote_build_sublists(remote, dirlist, have_stat_v2) ==
  IF dirlist = << >> THEN [file_list |-> << >>, reqs |-> << >>]
  ELSE LET current == dirlist[Len(dirlist)]
           sublist == remote_build_list(remote, current.rpath, current.lpath,
                                        have_stat_v2)
           rest == remote_build_sublists(remote,
                                         SubSeq(dirlist, 1, Len(dirlist) - 1),
                                         have_stat_v2)
       IN [file_list |-> sublist.file_list \o rest.file_list,
           reqs |-> sublist.reqs \o rest.reqs]

\* std::filesystem::directory_iterator: the entries of a host directory, in
\* an order of the file system's choosing
RECURSIVE SeqOf(_)
SeqOf(S) ==
  IF S = {} THEN << >>
  ELSE LET x == CHOOSE y \in S : TRUE IN << x >> \o SeqOf(S \ {x})

directory_iterator(local, lpath) ==
  SeqOf({p \in local.dirs \cup local.files : parent_path(p) = Named(lpath)})

RECURSIVE local_build_list(_, _, _)
RECURSIVE local_build_sublists(_, _)
\* local_build_list [1533-1562]: what it appends to the two lists
local_build_list(local, lpath, rpath) ==
  LET entries == directory_iterator(local, lpath)
      ci(p) == copyinfo(lpath, rpath, posix_basename(p), fs_mode(local, p))
      Cis(seq) == [i \in 1..Len(seq) |-> ci(seq[i])]
      IsDir(p) == fs_mode(local, p) = "DIR"
      IsReg(p) == fs_mode(local, p) = "REG"
      sub == local_build_sublists(local, Cis(SelectSeq(entries, IsDir)))
  IN [file_list |-> Cis(SelectSeq(entries, IsReg)) \o sub.file_list,
      directory_list |-> sub.directory_list]

local_build_sublists(local, dirlist) ==
  IF dirlist = << >> THEN [file_list |-> << >>, directory_list |-> << >>]
  ELSE LET first == local_build_list(local, Head(dirlist).lpath,
                                     Head(dirlist).rpath)
           rest == local_build_sublists(local, Tail(dirlist))
       IN [file_list |-> first.file_list \o rest.file_list,
           directory_list |-> << Head(dirlist).rpath >>
                                \o first.directory_list
                                \o rest.directory_list]

\* [1583-1586]: the remote directory and the directories above it, the
\* highest first
RECURSIVE remote_ancestors(_)
remote_ancestors(path) ==
  IF is_root_dir(path) THEN << >>
  ELSE remote_ancestors(posix_dirname(path)) \o << path >>

\* copy_local_dir_remote [1564-1636]: the mkdir commands run through the
\* shell and the SEND requests written (paths here are far shorter than
\* the 16384 and 32768 limits of lines 1604 and 1611)
copy_local_dir_remote(local, lpath, rpath0, mkdir_by_shell) ==
  LET rpath == IF back(rpath0) # "/" THEN rpath0 \o "/" ELSE rpath0
      built == local_build_list(local, lpath, rpath)
      directory_list == remote_ancestors(rpath) \o built.directory_list
      send(ci) == [id |-> "SEND", path |-> ci.rpath]
  IN [shells |-> IF mkdir_by_shell /\ directory_list # << >>
                 THEN << directory_list >> ELSE << >>,
      reqs |-> [i \in 1..Len(built.file_list) |-> send(built.file_list[i])]]

ErrorResult(msg) == << "error", msg >>

InitSyncCopy ==
  /\ EngineIdle /\ FilterIdle /\ WaiterIdle /\ ProtoIdle /\ ConnIdle
  /\ cmd = << >> /\ shell = << >> /\ race = << >>
  /\ \E op \in {"pull", "push"}, have_stat_v2 \in BOOLEAN,
        mkdir_by_shell \in BOOLEAN, remote \in RemoteTrees :
       \E srcs \in SourceLists(IF op = "pull" THEN RemoteSources
                               ELSE LocalSources, MaxSources),
          dst \in (IF op = "pull" THEN LocalDestinations
                   ELSE RemoteDestinations) :
         /\ op = "pull" => ~mkdir_by_shell
         /\ op = "push" => remote = RemoteBase
         /\ sync = [op |-> op, srcs |-> srcs, dst |-> dst,
                    have_stat_v2 |-> have_stat_v2,
                    mkdir_by_shell |-> mkdir_by_shell,
                    remote |-> remote, local |-> LocalFs,
                    sent |-> << >>, shells |-> << >>,
                    dst_exists |-> FALSE, dst_isdir |-> FALSE,
                    i |-> 1, file_list |-> << >>, k |-> 1,
                    opened |-> << >>,
                    pc |-> "check", result |-> << >>]

\* The test of lines 1719-1720 and 1822-1823
not_a_directory_Never(n_srcs, dst_isdir) == FALSE
not_a_directory(n_srcs, dst_isdir) == ~dst_isdir /\ n_srcs > 1

\* co_sync_pull [1700-1723]: errno after the failed exists() is ENOENT on
\* a POSIX host and whatever an earlier call left on others
SyncPullCheck(enoent) ==
  /\ sync # << >> /\ sync.op = "pull" /\ sync.pc = "check"
  /\ LET dst_exists == fs_exists(sync.local, sync.dst)
         dst_isdir == dst_exists /\ fs_is_directory(sync.local, sync.dst)
         n == Len(sync.srcs)
         error ==
           IF ~dst_exists /\ n = 1 /\ enoent
              /\ ~fs_exists(sync.local, parent_path(sync.dst))
           THEN "cannot create file/directory"
           ELSE IF ~dst_exists /\ ~(n = 1 /\ enoent)
           THEN "failed to access"
           ELSE IF not_a_directory(n, dst_isdir)
           THEN "is not a directory"
           ELSE ""
     IN /\ dst_exists => enoent
        /\ sync' = [sync EXCEPT !.dst_exists = dst_exists,
                                !.dst_isdir = dst_isdir,
                                !.pc = IF error = "" THEN "loop" ELSE "done",
                                !.result = IF error = "" THEN << >>
                                           ELSE ErrorResult(error)]
  /\ UNCHANGED << engineVars, filterVars, waiterVars, protoVars, connVars,
                  cmd, shell, race >>

\* co_sync_push [1811-1832]
SyncPushCheck ==
  /\ sync # << >> /\ sync.op = "push" /\ sync.pc = "check"
  /\ LET st == sync_stat(sync.remote, sync.dst, sync.have_stat_v2)
         dst_exists == ~st.thrown
         dst_isdir == ~st.thrown /\ st.mode = "DIR"
         n == Len(sync.srcs)
         error ==
           IF not_a_directory(n, dst_isdir) THEN "is not a directory"
           ELSE IF ~dst_isdir /\ back(sync.dst) = "/" /\ dst_exists
           THEN "Not a directory"
           ELSE ""
     IN sync' = [sync EXCEPT !.sent = @ \o st.reqs,
                             !.dst_exists = dst_exists,
                             !.dst_isdir = dst_isdir,
                             !.pc = IF error = "" THEN "loop" ELSE "done",
                             !.result = IF error = "" THEN << >>
                                        ELSE ErrorResult(error)]
  /\ UNCHANGED << engineVars, filterVars, waiterVars, protoVars, connVars,
                  cmd, shell, race >>

\* sync_recv [1193-1226] as a pull uses it: the RECV request, the file
\* opened for writing (which needs its directory) and the transfer
sync_recv(s, rpath, lpath, transfer_ok) ==
  LET request == [id |-> "RECV", path |-> rpath]
      can_open == /\ fs_exists(s.local, parent_path(lpath))
                  /\ fs_is_directory(s.local, parent_path(lpath))
                  /\ lpath \notin s.local.dirs
  IN IF ~can_open
     THEN [s EXCEPT !.sent = @ \o << request >>,
                    !.pc = "done",
                    !.result = ErrorResult("open")]
     ELSE IF ~transfer_ok
     THEN [s EXCEPT !.sent = @ \o << request >>,
                    !.opened = @ \o << lpath >>,
                    !.local.files = @ \ {lpath},
                    !.pc = "done",
                    !.result = ErrorResult("recv")]
     ELSE [s EXCEPT !.sent = @ \o << request >>,
                    !.opened = @ \o << lpath >>,
                    !.local.files = @ \cup {lpath}]

\* co_sync_pull [1725-1752]: one turn of the loop, up to the work list of
\* a directory
SyncPullSource(transfer_ok) ==
  /\ sync # << >> /\ sync.op = "pull" /\ sync.pc = "loop"
  /\ sync.i <= Len(sync.srcs)
  /\ LET src_path == sync.srcs[sync.i]
         src_st == sync_stat(sync.remote, src_path, sync.have_stat_v2)
         s1 == [sync EXCEPT !.sent = @ \o src_st.reqs, !.i = @ + 1]
     IN IF src_st.thrown
        THEN /\ transfer_ok
             /\ sync' = [s1 EXCEPT !.pc = "done",
                                   !.result = ErrorResult("stat")]
        ELSE IF src_st.mode = "DIR"
        THEN /\ transfer_ok
             /\ IF sync.dst_exists /\ ~sync.dst_isdir
                THEN sync' = [s1 EXCEPT
                                !.pc = "done",
                                !.result = ErrorResult("is not a directory")]
                ELSE LET dst_dir ==
                           IF sync.dst_exists
                           THEN path_append(sync.dst, posix_basename(src_path))
                           ELSE sync.dst
                         rpath == IF back(src_path) # "/"
                                  THEN src_path \o "/" ELSE src_path
                         built == remote_build_list(sync.remote, rpath,
                                                    dst_dir,
                                                    sync.have_stat_v2)
                     IN sync' = [s1 EXCEPT !.sent = @ \o built.reqs,
                                           !.file_list = built.file_list,
                                           !.k = 1,
                                           !.pc = "entries"]
        ELSE IF src_st.mode = "REG"
        THEN LET dst_path ==
                   IF sync.dst_isdir
                   THEN path_append(sync.dst, posix_basename(src_path))
                   ELSE sync.dst
             IN sync' = sync_recv(s1, src_path, dst_path, transfer_ok)
        ELSE /\ transfer_ok
             /\ sync' = s1
  /\ UNCHANGED << engineVars, filterVars, waiterVars, protoVars, connVars,
                  cmd, shell, race >>

\* copy_remote_dir_local [1518-1530]: one entry of the work list
SyncPullEntry(transfer_ok) ==
  /\ sync # << >> /\ sync.op = "pull" /\ sync.pc = "entries"
  /\ IF sync.k > Len(sync.file_list)
     THEN /\ transfer_ok
          /\ sync' = [sync EXCEPT !.pc = "loop"]
     ELSE LET ci == sync.file_list[sync.k]
              s1 == [sync EXCEPT !.k = @ + 1]
              made == create_directories(ci.lpath)
          IN IF ci.mode = "DIR"
             THEN /\ transfer_ok
                  /\ IF fs_exists(sync.local, ci.lpath)
                     THEN sync' = s1
                     ELSE IF made \cap sync.local.files # {}
                     THEN sync' = [s1 EXCEPT
                                     !.pc = "done",
                                     !.result =
                                       ErrorResult("failed to create directory")]
                     ELSE sync' = [s1 EXCEPT !.local.dirs = @ \cup made]
             ELSE sync' = sync_recv(s1, ci.rpath, ci.lpath, transfer_ok)
  /\ UNCHANGED << engineVars, filterVars, waiterVars, protoVars, connVars,
                  cmd, shell, race >>

\* co_sync_push [1834-1873]: one turn of the loop
SyncPushSource ==
  /\ sync # << >> /\ sync.op = "push" /\ sync.pc = "loop"
  /\ sync.i <= Len(sync.srcs)
  /\ LET src_path == sync.srcs[sync.i]
         mode == fs_mode(sync.local, src_path)
         s1 == [sync EXCEPT !.i = @ + 1]
     IN IF mode = "NONE" THEN sync' = s1
        ELSE IF mode = "DIR"
        THEN IF sync.dst_exists /\ ~sync.dst_isdir
             THEN sync' = [s1 EXCEPT
                             !.pc = "done",
                             !.result = ErrorResult("is not a directory")]
             ELSE LET dst_dir ==
                        IF sync.dst_exists
                        THEN posix_join(sync.dst, posix_basename(src_path))
                        ELSE sync.dst
                      copied == copy_local_dir_remote(sync.local, src_path,
                                                      dst_dir,
                                                      sync.mkdir_by_shell)
                  IN sync' = [s1 EXCEPT !.shells = @ \o copied.shells,
                                        !.sent = @ \o copied.reqs]
        ELSE LET dst_path ==
                   IF sync.dst_isdir
                   THEN posix_join(sync.dst, posix_basename(src_path))
                   ELSE sync.dst
             IN sync' = [s1 EXCEPT
                           !.sent = @ \o << [id |-> "SEND",
                                             path |-> dst_path] >>]
  /\ UNCHANGED << engineVars, filterVars, waiterVars, protoVars, connVars,
                  cmd, shell, race >>

\* ScopedSyncConnect::end [1646-1649] after the last source
SyncCopyEnd ==
  /\ sync # << >> /\ sync.op \in {"pull", "push"} /\ sync.pc = "loop"
  /\ sync.i > Len(sync.srcs)
  /\ sync' = [sync EXCEPT !.sent = @ \o << [id |-> "QUIT", path |-> ""] >>,
                          !.pc = "done",
                          !.result = << "ok" >>]
  /\ UNCHANGED << engineVars, filterVars, waiterVars, protoVars, connVars,
                  cmd, shell, race >>

NextSyncCopy ==
  \/ \E enoent \in BOOLEAN : SyncPullCheck(enoent)
  \/ SyncPushCheck
  \/ \E transfer_ok \in BOOLEAN : SyncPullSource(transfer_ok)
  \/ \E transfer_ok \in BOOLEAN : SyncPullEntry(transfer_ok)
  \/ SyncPushSource
  \/ SyncCopyEnd

SpecSyncCopy == InitSyncCopy /\ [][NextSyncCopy]_vars

(***************************************************************************)
(* ADB client: connect called from two threads (co-adb-client.cc)          *)
(***************************************************************************)
\* Each public operation runs its coroutine on an io_context of its own
\* (co_spawn_run), on the thread of its caller: the thread of the OS
\* notifications and the worker of the reconciliation may both be in
\* connect.  serverLaunchTried is a plain static bool, read at line 315 and
\* written at line 319 with nothing that orders the two threads.
ConnectThreads == {"os", "worker"}

NoConnect ==
  [pc |-> "connect", option |-> DefaultOption, connects |-> 0,
   first |-> "none", wrote |-> FALSE, launched |-> 0, thrown |-> ""]

InitRace ==
  /\ EngineIdle /\ FilterIdle /\ WaiterIdle /\ ProtoIdle
  /\ cmd = << >> /\ shell = << >> /\ sync = << >>
  /\ serverLaunchTried = FALSE
  /\ listening \in BOOLEAN
  /\ launches = 0
  /\ call = << >>
  /\ calls_left = 0
  /\ \E flags \in [ConnectThreads -> BOOLEAN] :
       race = [t \in ConnectThreads |->
                 [NoConnect EXCEPT !.option.launchServerIfNeed = flags[t]]]

\* What a thread may read from the guard: the value it holds, or the value
\* from before the write of another thread that nothing orders before the
\* read
GuardReads(t) ==
  {serverLaunchTried}
    \cup (IF ~race[t].wrote /\ \E u \in ConnectThreads \ {t} : race[u].wrote
          THEN {FALSE} ELSE {})

\* connect lines 310-317 on thread t: async_connect, and on failure the
\* test of the option and of the guard
RaceAsyncConnect(t, tried) ==
  /\ race # << >> /\ race[t].pc = "connect"
  /\ LET first == IF race[t].first # "none" THEN race[t].first
                  ELSE IF listening THEN "ok" ELSE "failed"
     IN IF listening
        THEN /\ tried = serverLaunchTried
             /\ race' = [race EXCEPT ![t].pc = "connected",
                                     ![t].connects = @ + 1,
                                     ![t].first = first]
        ELSE /\ tried \in GuardReads(t)
             /\ IF MayLaunch(race[t].option, tried)
                THEN race' = [race EXCEPT ![t].pc = "set",
                                          ![t].connects = @ + 1,
                                          ![t].first = first]
                ELSE race' = [race EXCEPT ![t].pc = "done",
                                          ![t].connects = @ + 1,
                                          ![t].first = first,
                                          ![t].thrown = "connection_error"]
  /\ UNCHANGED << engineVars, filterVars, waiterVars, protoVars,
                  serverLaunchTried, listening, launches, call, calls_left,
                  cmd, shell, sync >>

\* connect line 319 on thread t
RaceSetGuard(t) ==
  /\ race # << >> /\ race[t].pc = "set"
  /\ serverLaunchTried' = TRUE
  /\ race' = [race EXCEPT ![t].pc = "launch", ![t].wrote = TRUE]
  /\ UNCHANGED << engineVars, filterVars, waiterVars, protoVars,
                  listening, launches, call, calls_left, cmd, shell, sync >>

\* connect lines 321-326 on thread t: launch_server reports r
RaceLaunchServer(t, r, up) ==
  /\ race # << >> /\ race[t].pc = "launch"
  /\ launches' = launches + 1
  /\ listening' = (listening \/ (r = 0 /\ up))
  /\ IF r # 0
     THEN race' = [race EXCEPT ![t].pc = "done",
                               ![t].launched = @ + 1,
                               ![t].thrown = "connection_error"]
     ELSE race' = [race EXCEPT ![t].pc = "connect", ![t].launched = @ + 1]
  /\ UNCHANGED << engineVars, filterVars, waiterVars, protoVars,
                  serverLaunchTried, call, calls_left, cmd, shell, sync >>

NextRace ==
  \/ \E t \in ConnectThreads, tried \in BOOLEAN : RaceAsyncConnect(t, tried)
  \/ \E t \in ConnectThreads : RaceSetGuard(t)
  \/ \E t \in ConnectThreads, r \in {0, 1}, up \in BOOLEAN :
       RaceLaunchServer(t, r, up)

SpecRace == InitRace /\ [][NextRace]_vars

(***************************************************************************)
(* task_thread on its own: one worker, a producer and a caller of stop()   *)
(* (task-thread.h).  reqs and stop_requested are the members; thr holds    *)
(* the three threads, wk the settings of the worker and the history        *)
(***************************************************************************)
MaxPushes == 3
MaxIdleCalls == 2

TaskIdentities == {1, 2}

taskRest ==
  << filterVars, waiterVars, clientVars, settings, plug, world, attached,
     cached, adb_serials, adb_server, arrived, live, events, steps >>

\* task_thread after start(f) or start(rel_time, f): the thread is created,
\* the queue is empty, stop_requested_ is false
InitTask ==
  /\ FilterIdle /\ WaiterIdle /\ ClientIdle
  /\ settings = NoFilter /\ plug = {} /\ world = "any" /\ attached = {}
  /\ cached = << >> /\ adb_serials = << >> /\ adb_server = "up"
  /\ arrived = {} /\ live = {} /\ events = 0
  /\ steps = [limited |-> TRUE, left |-> 0]
  /\ reqs = << >>
  /\ stop_requested = FALSE
  /\ \E periodic \in BOOLEAN, consume_all \in BOOLEAN :
       /\ wk = [periodic |-> periodic, consume_all |-> consume_all,
                notified |-> FALSE, next |-> 1, pushed |-> << >>,
                handled |-> << >>]
       /\ thr = [worker |-> [pc |-> IF periodic THEN "first" ELSE "loop",
                             req |-> << >>],
                 producer |-> [pc |-> "idle", kind |-> "", req |-> << >>,
                               before |-> << >>, ret |-> << >>, woke |-> FALSE],
                 stopper |-> [pc |-> "idle"]]

\* the predicate of condition_.wait and condition_.wait_for [95, 134]
wait_pred(q, stop) == Len(q) # 0 \/ stop

take_front_None(q) == << >>

\* the request handed to func: the head of the queue if there is one
\* [102, 141-145]
take_front(q) == IF Len(q) # 0 THEN << Head(q) >> ELSE << >>

notify_one_Lost(blocked, notified) == notified

\* condition_.notify_one(): the thread blocked in the wait, if there is one,
\* becomes runnable; a notification with no waiter is not remembered
notify_one(blocked, notified) == blocked \/ notified

\* the periodic worker calls func(std::nullopt) before its loop [128]
TaskFirst ==
  /\ thr.worker.pc = "first"
  /\ thr' = [thr EXCEPT !.worker.pc = "run", !.worker.req = << >>]
  /\ wk' = [wk EXCEPT !.handled = Append(@, << >>)]
  /\ UNCHANGED << taskRest, reqs, stop_requested >>

\* One pass of the critical section of the loop [93-105, 132-147]: the
\* thread takes mutex_ (how = "enter"), or wakes up in the wait on a
\* notification, on the period (wait_for) or spuriously; it blocks when the
\* predicate is false, leaves the loop, or takes the head of the queue and
\* calls the handler
TaskWait(how) ==
  /\ CASE how = "enter" -> thr.worker.pc = "loop"
       [] how = "notified" -> thr.worker.pc = "blocked" /\ wk.notified
       [] how = "timeout" -> thr.worker.pc = "blocked" /\ wk.periodic
       [] how = "spurious" -> thr.worker.pc = "blocked"
  /\ IF ~wait_pred(reqs, stop_requested) /\ how # "timeout"
     THEN /\ thr' = [thr EXCEPT !.worker.pc = "blocked"]
          /\ wk' = [wk EXCEPT !.notified = FALSE]
          /\ UNCHANGED reqs
     ELSE IF stop_and_done(stop_requested, reqs, wk.consume_all)
     THEN /\ thr' = [thr EXCEPT !.worker.pc = "clear"]
          /\ wk' = [wk EXCEPT !.notified = FALSE]
          /\ UNCHANGED reqs
     ELSE LET r == take_front(reqs)
          IN  /\ wk.periodic \/ r # << >>
              /\ r = << >> =>
                   Len(SelectSeq(wk.handled, LAMBDA h : h = << >>)) < MaxIdleCalls
              /\ reqs' = IF r # << >> THEN Tail(reqs) ELSE reqs
              /\ thr' = [thr EXCEPT !.worker.pc = "run", !.worker.req = r]
              /\ wk' = [wk EXCEPT !.notified = FALSE,
                                  !.handled = Append(@, r)]
  /\ UNCHANGED << taskRest, stop_requested >>

\* func(req) returns [107, 149]
TaskHandlerReturn ==
  /\ thr.worker.pc = "run"
  /\ thr' = [thr EXCEPT !.worker.pc = "loop", !.worker.req = << >>]
  /\ UNCHANGED << taskRest, reqs, stop_requested, wk >>

\* clear_queue() at the end of the thread function [68-75, 110, 152]
clear_queue ==
  /\ thr.worker.pc = "clear"
  /\ reqs' = << >>
  /\ thr' = [thr EXCEPT !.worker.pc = "done"]
  /\ UNCHANGED << taskRest, stop_requested, wk >>

\* push_request [204-207] or push_request_conditional [215-235]: the part
\* under mutex_.  The predicate of the conditional push is "same identity"
TaskPush(kind, identity) ==
  /\ thr.producer.pc = "idle"
  /\ wk.next <= MaxPushes
  /\ LET req == Trigger([identity |-> identity], wk.next)
         r == IF kind = "push"
              THEN [reqs |-> push_request(reqs, req), added |-> TRUE]
              ELSE push_request_conditional(reqs, req, identity)
     IN  /\ reqs' = r.reqs
         /\ wk' = [wk EXCEPT !.next = @ + 1,
                             !.pushed = IF r.added THEN Append(@, req) ELSE @]
         /\ thr' = [thr EXCEPT !.producer =
                      [pc |-> IF r.added THEN "notify" ELSE "idle",
                       kind |-> kind, req |-> << req >>,
                       before |-> IF kind = "push" THEN << >> ELSE reqs,
                       ret |-> IF r.added THEN << >> ELSE << FALSE >>,
                       woke |-> FALSE]]
  /\ UNCHANGED << taskRest, stop_requested >>

\* condition_.notify_one() and the return [208, 236-239]
TaskNotify ==
  /\ thr.producer.pc = "notify"
  /\ wk' = [wk EXCEPT !.notified = notify_one(thr.worker.pc = "blocked", @)]
  /\ thr' = [thr EXCEPT !.producer.pc = "idle", !.producer.ret = << TRUE >>,
                        !.producer.woke = TRUE]
  /\ UNCHANGED << taskRest, reqs, stop_requested >>

\* stop() [56-66, 242-244]: set the flag under mutex_, notify_all (there is
\* one waiter), join
stop_impl ==
  /\ \/ /\ thr.stopper.pc = "idle"
        /\ stop_requested' = TRUE
        /\ thr' = [thr EXCEPT !.stopper.pc = "notify"]
        /\ UNCHANGED wk
     \/ /\ thr.stopper.pc = "notify"
        /\ wk' = [wk EXCEPT !.notified = notify_one(thr.worker.pc = "blocked", @)]
        /\ thr' = [thr EXCEPT !.stopper.pc = "join"]
        /\ UNCHANGED stop_requested
     \/ /\ thr.stopper.pc = "join"
        /\ thr.worker.pc = "done"
        /\ thr' = [thr EXCEPT !.stopper.pc = "returned"]
        /\ UNCHANGED << stop_requested, wk >>
  /\ UNCHANGED << taskRest, reqs >>

NextTask ==
  \/ TaskFirst
  \/ \E how \in {"enter", "notified", "timeout", "spurious"} : TaskWait(how)
  \/ TaskHandlerReturn
  \/ clear_queue
  \/ \E kind \in {"push", "conditional"}, identity \in TaskIdentities :
       TaskPush(kind, identity)
  \/ TaskNotify
  \/ stop_impl

SpecTask == InitTask /\ [][NextTask]_vars

\* The worker thread runs: it takes mutex_ when it is free, wakes up when it
\* is notified or when the period has elapsed, and the handler returns.  A
\* spurious wake-up is possible and never owed.
TaskWorkerThread ==
  \/ TaskFirst
  \/ \E how \in {"enter", "notified", "timeout"} : TaskWait(how)
  \/ TaskHandlerReturn
  \/ clear_queue

\* A thread that has left its critical section goes on to its notify; no
\* caller owes a push or a stop
SpecTaskFair ==
  /\ SpecTask
  /\ WF_vars(TaskWorkerThread)
  /\ WF_vars(TaskNotify)
  /\ WF_vars(thr.stopper.pc # "idle" /\ stop_impl)

(***************************************************************************)
(* ADB client: the sync sessions of the other public operations            *)
(* (co_sync_stat, co_sync_list, co_sync_pull_buffer, co_sync_push_buffer)  *)
(***************************************************************************)
InitSyncSingle ==
  /\ EngineIdle /\ FilterIdle /\ WaiterIdle /\ ProtoIdle /\ ConnIdle
  /\ cmd = << >> /\ shell = << >> /\ race = << >>
  /\ \E op \in {"stat", "list", "pull_buffer", "push_buffer"},
        have_stat_v2 \in BOOLEAN, remote \in RemoteTrees,
        path \in RemoteSources \cup RemoteDestinations :
       sync = [op |-> op,
               srcs |-> IF op = "push_buffer" THEN << >> ELSE << path >>,
               dst |-> IF op = "push_buffer" THEN path ELSE "",
               have_stat_v2 |-> have_stat_v2,
               mkdir_by_shell |-> FALSE,
               remote |-> remote, local |-> LocalFs,
               sent |-> << >>, shells |-> << >>,
               dst_exists |-> FALSE, dst_isdir |-> FALSE,
               i |-> 1, file_list |-> << >>, k |-> 1,
               opened |-> << >>,
               pc |-> "check", result |-> << >>]

\* The body of co_sync_stat [1793], co_sync_list [1679],
\* co_sync_pull_buffer [1769-1775] and co_sync_push_buffer [1892-1905], up
\* to the statement that ends the session or returns
SyncSingle(transfer_ok) ==
  /\ sync # << >> /\ sync.pc = "check"
  /\ sync.op \in {"stat", "list", "pull_buffer", "push_buffer"}
  /\ LET path == IF sync.op = "push_buffer" THEN sync.dst ELSE sync.srcs[1]
         st == sync_stat(sync.remote, path, sync.have_stat_v2)
         failed(s, msg) == [s EXCEPT !.pc = "done",
                                     !.result = ErrorResult(msg)]
     IN CASE sync.op = "stat" ->
               /\ transfer_ok
               /\ LET s1 == [sync EXCEPT !.sent = @ \o st.reqs]
                  IN sync' = IF st.thrown THEN failed(s1, "stat")
                             ELSE [s1 EXCEPT !.pc = "done",
                                             !.result = << "ok" >>]
          [] sync.op = "list" ->
               /\ transfer_ok
               /\ sync' = [sync EXCEPT
                             !.sent = @ \o << [id |-> "LIST", path |-> path] >>,
                             !.pc = "end"]
          [] sync.op = "pull_buffer" ->
               LET s1 == [sync EXCEPT !.sent = @ \o st.reqs]
                   s2 == [s1 EXCEPT
                            !.sent = @ \o << [id |-> "RECV", path |-> path] >>]
               IN IF st.thrown
                  THEN transfer_ok /\ sync' = failed(s1, "stat")
                  ELSE IF st.mode = "DIR"
                  THEN transfer_ok /\ sync' = failed(s1, "is a directory")
                  ELSE IF ~transfer_ok THEN sync' = failed(s2, "recv")
                  ELSE sync' = [s2 EXCEPT !.pc = "end"]
          [] sync.op = "push_buffer" ->
               LET s1 == [sync EXCEPT !.sent = @ \o st.reqs]
                   s2 == [s1 EXCEPT
                            !.sent = @ \o << [id |-> "SEND", path |-> path] >>]
               IN IF ~st.thrown /\ st.mode = "DIR"
                  THEN transfer_ok /\ sync' = failed(s1, "is a directory")
                  ELSE IF ~transfer_ok THEN sync' = failed(s2, "send")
                  ELSE sync' = [s2 EXCEPT !.pc = "end"]
  /\ UNCHANGED << engineVars, filterVars, waiterVars, protoVars, connVars,
                  cmd, shell, race >>

\* co_await client.end() [1681, 1777, 1907] and the return
SyncSingleEnd ==
  /\ sync # << >> /\ sync.pc = "end"
  /\ sync.op \in {"list", "pull_buffer", "push_buffer"}
  /\ sync' = [sync EXCEPT !.sent = @ \o << [id |-> "QUIT", path |-> ""] >>,
                          !.pc = "done",
                          !.result = << "ok" >>]
  /\ UNCHANGED << engineVars, filterVars, waiterVars, protoVars, connVars,
                  cmd, shell, race >>

InitSyncSession == InitSyncCopy \/ InitSyncSingle

NextSyncSession ==
  \/ NextSyncCopy
  \/ \E transfer_ok \in BOOLEAN : SyncSingle(transfer_ok)
  \/ SyncSingleEnd

SpecSyncSession == InitSyncSession /\ [][NextSyncSession]_vars

(***************************************************************************)
(* ADB client: the ancestors of the destination of a recursive push        *)
(* (co-adb-client.cc, copy_local_dir_remote)                               *)
(***************************************************************************)
MaxPathLen == 5
MaxTurns == 7

\* The destinations: every non-empty string of "a" and "/" up to MaxPathLen
RECURSIVE PathsOfLen(_)
PathsOfLen(n) ==
  IF n = 0 THEN {""}
  ELSE {c \o p : c \in {"a", "/"}, p \in PathsOfLen(n - 1)}

DestinationPaths == UNION {PathsOfLen(n) : n \in 1..MaxPathLen}

InitAncestors ==
  /\ EngineIdle /\ FilterIdle /\ WaiterIdle /\ ProtoIdle /\ ConnIdle
  /\ cmd = << >> /\ shell = << >> /\ race = << >>
  /\ \E rpath0 \in DestinationPaths :
       LET rpath == IF back(rpath0) # "/" THEN rpath0 \o "/" ELSE rpath0
       IN sync = [op |-> "ancestors", rpath |-> rpath, path |-> rpath,
                  prev |-> rpath, directory_list |-> << >>, turns |-> 0,
                  pc |-> "loop"]

\* std::reverse
RECURSIVE reverse(_)
reverse(seq) ==
  IF seq = << >> THEN << >> ELSE reverse(Tail(seq)) \o << Head(seq) >>

\* copy_local_dir_remote [1583-1586]: one turn of the for loop, or the
\* std::reverse after it
AncestorsTurn ==
  /\ sync # << >> /\ sync.op = "ancestors" /\ sync.pc = "loop"
  /\ IF is_root_dir(sync.path)
     THEN sync' = [sync EXCEPT !.directory_list = reverse(@), !.pc = "done"]
     ELSE /\ sync.turns < MaxTurns
          /\ sync' = [sync EXCEPT !.directory_list = Append(@, sync.path),
                                  !.prev = sync.path,
                                  !.path = posix_dirname(sync.path),
                                  !.turns = @ + 1]
  /\ UNCHANGED << engineVars, filterVars, waiterVars, protoVars, connVars,
                  cmd, shell, race >>

NextAncestors == AncestorsTurn

SpecAncestors == InitAncestors /\ [][NextAncestors]_vars

(***************************************************************************)
(* Properties                                                              *)
(***************************************************************************)
\* the record thread t is passing to the user callback, if any
Emitting(t) == thr[t].pc = "in_cb"

\* C1: the user callback never receives a departure record for an identity
\* before it has received the arrival record of the same attachment: every
\* departure is passed for an identity whose last emission was an arrival.
C1_DepartureFollowsArrival ==
  [][\A t \in Threads :
       (thr[t].pc = "cb" /\ thr'[t].pc = "in_cb" /\ thr[t].node[1].off)
         => thr[t].node[1].identity \in live]_vars

\* C2: two invocations of the user callback for the same identity, one from
\* the OS-notification thread and one from the worker thread, never overlap.
\* The two records are those of one interface (same identity, same type).
C2_EmissionsSerialized ==
  ~(/\ Emitting("os")
    /\ Emitting("worker")
    /\ thr.os.node[1].identity = thr.worker.node[1].identity
    /\ thr.os.node[1].type = thr.worker.node[1].type)

\* C3: with the ADB client enabled, an arrival record whose type contains
\* Usb|Adb is passed to the callback only by the worker, at the end of a step
\* whose correlation merged serial, product, model and device of a listed
\* device into it; the OS arrival path emits no such record.
C3_UsbAdbArrivalOnlyMerged ==
  settings.enableAdbClient =>
    /\ \A t \in Threads :
         (thr[t].pc \in {"cb", "in_cb"} /\ ~thr[t].node[1].off
            /\ IsUsbConnectedAdb(thr[t].node[1]))
           => /\ t = "worker"
              /\ thr[t].node[1].adbMerged
              /\ wk.outcome = "correlated"
              /\ \E i \in 1..Len(wk.pre[1].devs) :
                   LET d == wk.pre[1].devs[i]
                       n == thr[t].node[1]
                   IN  /\ n.serial = d.serial /\ n.product = d.product
                       /\ n.model = d.model /\ n.device = d.device
    /\ \A i \in 1..Len(thr.os.emits) :
         thr.os.emits[i].off \/ ~IsUsbConnectedAdb(thr.os.emits[i])

C3_Witness ==
  /\ settings.enableAdbClient
  /\ Emitting("worker")
  /\ ~thr.worker.node[1].off
  /\ IsUsbConnectedAdb(thr.worker.node[1])
  /\ thr.worker.node[1].adbMerged

\* The devices of the snapshot of the current step whose serial was not in
\* adb_serials_ when the snapshot was taken
NewDevs == SelectSeq(wk.pre[1].devs, LAMBDA d : ~Contains(wk.pre[1].serials, d.serial))

\* The worker has finished a step that handled the Trigger of a USB-ADB
\* arrival with unknown serial, on a snapshot listing exactly one new device
C4_Case ==
  /\ thr.worker.pc = "ret"
  /\ wk.pre # <<>>
  /\ wk.pre[1].req # <<>>
  /\ ~wk.pre[1].req[1].node.off
  /\ IsUsbConnectedAdb(wk.pre[1].req[1].node)
  /\ wk.pre[1].req[1].node.serial = ""
  /\ Len(NewDevs) = 1

\* The step emitted exactly one arrival for the Trigger's identity: the USB
\* record with the serial, product, model and device of the new device; and the
\* serial is in adb_serials_
C4_Emitted ==
  LET node == wk.pre[1].req[1].node
      d == NewDevs[1]
  IN  /\ SelectSeq(thr.worker.emits, LAMBDA e : e.identity = node.identity)
           = << [node EXCEPT !.serial = d.serial, !.product = d.product,
                             !.model = d.model, !.device = d.device,
                             !.adbMerged = TRUE] >>
      /\ Contains(adb_serials, d.serial)

\* C4 (as stated): given a USB-ADB arrival with unknown serial and a snapshot
\* that lists exactly one device whose serial is not in adb_serials, the step
\* that handles the Trigger emits exactly one arrival for the identity, with
\* the USB attributes and the ADB-supplied fields, and tracks the serial.
C4_Original == C4_Case => C4_Emitted

\* C4 (amended): the same, for a new device whose serial is not of the remote
\* form ip:port.
C4_CorrelationOfUsbSerial ==
  (C4_Case /\ ~isRemoteDevice(NewDevs[1].serial)) => C4_Emitted

C4_Witness ==
  /\ C4_Case
  /\ ~isRemoteDevice(NewDevs[1].serial)
  /\ C4_Emitted
  /\ Len(wk.pre[1].devs) > 1

\* The record onUsbInterfaceOff found in cached was Reported (merged, and the
\* last emission for its identity was its arrival) or Pending
Reported(node, wasLive) ==
  IsUsbConnectedAdb(node) /\ node.adbMerged /\ wasLive

Pending(node) ==
  IsUsbConnectedAdb(node) /\ settings.enableAdbClient /\ ~node.adbMerged

\* C5: an OS removal of a Reported USB-ADB record emits exactly one record
\* with off=true and the same identity, whatever model and device the ADB
\* server supplied.
C5_ReportedRemovalEmits ==
  (thr.os.pc = "ret" /\ thr.os.found # <<>>
     /\ Reported(thr.os.found[1], thr.os.wasLive))
    => /\ Len(thr.os.emits) = 1
       /\ thr.os.emits[1].off
       /\ thr.os.emits[1].identity = thr.os.found[1].identity

\* C6: an OS removal of a Pending USB-ADB record removes it from cached,
\* enqueues an off-Trigger and emits nothing.
C6_PendingRemovalSilent ==
  /\ [](\A i \in 1..Len(thr.os.found) :
          Pending(thr.os.found[i])
            => thr.os.pc \in {"off_push", "ret"} /\ thr.os.emits = <<>>)
  /\ [][(thr.os.pc = "idle" /\ thr'.os.found # <<>> /\ Pending(thr'.os.found[1]))
          => thr'.os.found[1].identity \notin DOMAIN cached']_vars
  /\ [][(thr.os.pc = "off_push" /\ thr'.os.pc # "off_push" /\ Pending(thr.os.found[1]))
          => /\ reqs' = Append(reqs, Trigger([thr.os.found[1] EXCEPT !.off = TRUE], 0))
             /\ thr'.os.pc = "ret"]_vars

C6_Witness ==
  /\ thr.os.pc = "ret"
  /\ thr.os.found # <<>>
  /\ Pending(thr.os.found[1])
  /\ thr.os.emits = <<>>
  /\ thr.os.found[1].serial # ""

\* C7: for each serial value cached holds at most one live record whose type
\* includes Adb with that serial.
C7_OneLiveAdbRecordPerSerial ==
  \A a, b \in DOMAIN cached :
    (/\ "Adb" \in cached[a].type /\ "Adb" \in cached[b].type
     /\ ~cached[a].off /\ ~cached[b].off
     /\ cached[a].serial # ""
     /\ cached[a].serial = cached[b].serial)
      => a = b

\* C8: every departure record passed to the user callback carries an identity
\* for which an arrival record was emitted earlier.
C8_DepartureOnlyAfterSomeArrival ==
  [][\A t \in Threads :
       (thr[t].pc = "cb" /\ thr'[t].pc = "in_cb" /\ thr[t].node[1].off)
         => thr[t].node[1].identity \in arrived]_vars

\* The Triggers of arrivals (off=false) that are queued or in flight
OnTriggers ==
  SelectSeq(reqs, LAMBDA r : ~r.node.off) \o SelectSeq(wk.req, LAMBDA r : ~r.node.off)

\* C9: when the ADB server answers and never lists a matching device, the Trigger of a
\* USB-ADB arrival is enqueued again only while its retry counter is below 60,
\* the counter (the number of times it was enqueued again) never exceeds 60,
\* no arrival of a USB-ADB record is emitted, and eventually no Trigger of an
\* arrival is queued or in flight any more.
C9_RetryBoundedAndDropped ==
  /\ [](/\ \A i \in 1..Len(OnTriggers) : OnTriggers[i].round <= MAX_ADB_RETRY_COUNT
        /\ \A t \in Threads : \A i \in 1..Len(thr[t].emits) :
             thr[t].emits[i].off \/ ~IsUsbConnectedAdb(thr[t].emits[i]))
  /\ [][(thr.worker.pc = "ops" /\ thr'.worker.pc = "ret" /\ reqs' # reqs)
          => /\ wk.req[1].round < MAX_ADB_RETRY_COUNT
             /\ reqs' = Append(reqs, [wk.req[1] EXCEPT !.round = @ + 1])]_vars
  /\ <>[](OnTriggers = <<>>)

C9_Witness ==
  /\ thr.worker.pc = "ret"
  /\ wk.outcome = "dropped"
  /\ wk.req # <<>>
  /\ wk.req[1].round = MAX_ADB_RETRY_COUNT
  /\ IsUsbConnectedAdb(wk.req[1].node)
  /\ reqs = <<>>
  /\ arrived = {}

\* C10: for any two distinct interfaces attached at the same time the source
\* passes different interface ids and the engine derives different identities.
C10_DistinctIdentities ==
  \A a, b \in attached :
    a # b => /\ InterfaceId(a) # InterfaceId(b)
             /\ createUuid(InterfaceId(a)) # createUuid(InterfaceId(b))

\* The filter rule as the documentation states it
FilterRule(node, s) ==
  /\ (s.typeFilters = <<>>
        \/ \E i \in 1..Len(s.typeFilters) : s.typeFilters[i] \subseteq node.type)
  /\ (s.includeVids = {} \/ node.vid \in s.includeVids)
  /\ (s.excludeVids = {} \/ node.vid = 0 \/ node.vid \notin s.excludeVids)
  /\ (s.includePids = {} \/ node.pid \in s.includePids)
  /\ (s.excludePids = {} \/ node.pid = 0 \/ node.pid \notin s.excludePids)
  /\ (s.drivers = {} \/ node.driver \in s.drivers)

\* C11: shouldIncludeDevice(record, settings) is true iff the type rule, the
\* include and exclude rules of vid and pid (an id of 0 is never excluded) and
\* the driver rule all hold.
C11_FilterIsTheRule ==
  flt_result # <<>> => (flt_result[1] <=> FilterRule(flt_node, flt_settings))

C11_Witness ==
  /\ flt_result = <<TRUE>>
  /\ flt_node.vid = 0
  /\ 0 \in flt_settings.excludeVids
  /\ flt_settings.typeFilters # <<>>
  /\ flt_settings.drivers # {}

\* wait_for has returned true: target holds the record that matched
WaitMatched == wpc = "done" /\ wresult = <<TRUE>>

\* C12: a target whose type is not None matches a candidate only if every
\* type bit of the target is set in the candidate.
C12_TypeBitsSubset ==
  /\ WaitMatched => target0.type \subseteq target.type
  /\ \A t \in WaiterTargets : \A iface \in get_all(t) : t.type \subseteq iface.type

\* The string fields of DeviceInterface other than identity
StringFields ==
  {"devpath", "hub", "serial", "manufacturer", "product", "model", "device",
   "driver", "ip", "description"}

StringFieldsAgree(tgt, iface) == \A f \in StringFields : tgt[f] = "" \/ tgt[f] = iface[f]

\* C13: a non-empty string field of the target matches only candidates with
\* an equal field, for the record wait_for returns and for those of get_all.
C13_StringFieldsEqual ==
  /\ WaitMatched => StringFieldsAgree(target0, target)
  /\ \A t \in WaiterTargets : \A iface \in get_all(t) : StringFieldsAgree(t, iface)

\* C14: wait_for returns true at once, with the record in the target, when a
\* held record matches; otherwise it registers, and no matching record is held
\* while it is registered; a return of true leaves a matching record in the
\* target; false is returned only for a timeout >= 0 that elapsed with no
\* matching record held; a wait that was signalled returns true, and a wait
\* with a timeout >= 0 returns.
C14_WaitFor ==
  /\ [][(wpc = "idle" /\ wpc' # "idle")
          => IF match_target(target0', ifs) # {}
             THEN /\ wpc' = "done" /\ wresult' = <<TRUE>>
                  /\ target' \in match_target(target0', ifs)
             ELSE wpc' = "waiting" /\ wait_if' /\ target' = target0']_vars
  /\ []((wpc = "waiting" /\ wait_if) => match_target(target0, ifs) = {})
  /\ [](WaitMatched => test_match(target0, target))
  /\ [][(wpc = "waiting" /\ wresult' = <<FALSE>>)
          => timeout >= 0 /\ match_target(target0, ifs) = {}]_vars
  /\ [][(wpc = "waiting" /\ wait_if /\ ~wait_if' /\ wpc' = "waiting")
          => target' \in match_target(target0, ifs') /\ target' \notin match_target(target0, ifs)]_vars
  /\ ((wpc = "waiting" /\ ~wait_if) ~> WaitMatched)
  /\ ((wpc = "waiting" /\ timeout >= 0) ~> (wpc = "done"))

C14_Witness ==
  /\ WaitMatched
  /\ signals = 1
  /\ target # target0
  /\ target0 # AnyTarget

\* C15: after wait_for has returned false no waiter is registered, and a
\* record emitted afterwards neither writes the target nor signals.
C15_TimeoutUnregisters ==
  /\ []((wpc = "done" /\ wresult = <<FALSE>>) => (~wait_if /\ target = target0))
  /\ [][(wpc = "done" /\ wresult = <<FALSE>>)
          => (target' = target /\ signals' = signals /\ ~wait_if')]_vars

C15_Witness ==
  /\ wpc = "done"
  /\ wresult = <<FALSE>>
  /\ match_target(target0, ifs) # {}
  /\ target = target0
  /\ signals = 0

\* The branch the precedence transport-id > serial > transport kind selects
Precedence(option) ==
  CASE option.transportId # <<>> -> "transport-id"
    [] option.transportId = <<>> /\ option.serial # "" -> "serial"
    [] option.transportId = <<>> /\ option.serial = "" -> option.transportType

SelectorOf(branch, option) ==
  CASE branch = "transport-id" ->
         "host:transport-id:" \o format_int(option.transportId[1])
    [] branch = "serial" -> "host:tport:serial:" \o option.serial
    [] branch = Usb -> "host:tport:usb"
    [] branch = Local -> "host:tport:local"
    [] branch = Any -> "host:tport:any"

PrefixOf(branch, option) ==
  CASE branch = "transport-id" ->
         "host-transport-id:" \o format_int(option.transportId[1]) \o ":"
    [] branch = "serial" -> "host-serial:" \o option.serial \o ":"
    [] branch = Usb -> "host-usb:"
    [] branch = Local -> "host-local:"
    [] branch = Any -> "host:"

\* C16: for every combination of transport id set or unset, serial set or
\* unset and transport kind Any, Usb or Local, the selector sent by
\* switch_socket_transport and the prefix built by format_host_command are
\* those of the one branch the precedence transport-id > serial > transport
\* kind selects, so the two functions take the same branch.
C16_SelectorPrecedence ==
  /\ cl_selector # <<>> =>
       cl_selector[1].sent = SelectorOf(Precedence(cl_option), cl_option)
  /\ cl_command # <<>> =>
       cl_command[1] = PrefixOf(Precedence(cl_option), cl_option) \o cl_service

C16_Witness ==
  /\ cl_selector # <<>>
  /\ cl_command # <<>>
  /\ cl_option.transportId # <<>>
  /\ cl_option.serial # ""
  /\ cl_option.transportType = Usb
  /\ cl_selector[1].sent = "host:transport-id:12"
  /\ cl_command[1] = "host-transport-id:12:features"

\* the characters 0-9 and a-f
IsLowerHex(c) == c \in {"0", "1", "2", "3", "4", "5", "6", "7", "8", "9",
                        "a", "b", "c", "d", "e", "f"}

\* C17: for every string s that send_protocol_string accepts (at most
\* MAX_PAYLOAD - 4 characters), the bytes written are exactly four lower-case
\* base-16 characters that spell the length of s, followed by s, and a reader
\* that reads four bytes, takes them as a base-16 number and reads that many
\* bytes gets s back.
C17_FramingRoundTrip ==
  /\ (cl_wire # <<>> /\ Len(cl_service) <= MAX_PAYLOAD - 4) =>
       /\ cl_wire[1].error = ""
       /\ Len(cl_wire[1].bytes) = 4 + Len(cl_service)
       /\ \A i \in 1..4 : IsLowerHex(SubSeq(cl_wire[1].bytes, i, i))
       /\ stoul(SubSeq(cl_wire[1].bytes, 1, 4)) = Len(cl_service)
       /\ SubSeq(cl_wire[1].bytes, 5, Len(cl_wire[1].bytes)) = cl_service
  /\ cl_read # <<>> => cl_read[1] = [error |-> "", msg |-> cl_service]

\* the same for the strings of fewer than 65536 characters
C17_ShortStringsRoundTrip ==
  Len(cl_service) < 65536 => C17_FramingRoundTrip

C17_ShortWitness ==
  /\ Len(cl_service) = 65535
  /\ cl_read # <<>>
  /\ cl_read[1].msg = cl_service
  /\ SubSeq(cl_wire[1].bytes, 1, 4) = "ffff"

\* a string longer than MAX_PAYLOAD - 4 is refused and nothing is written
C17_LongRefused ==
  (cl_wire # <<>> /\ Len(cl_service) > MAX_PAYLOAD - 4) =>
     cl_wire[1] = [error |-> "message too big", bytes |-> ""]

\* C18: within one call of connect the server is launched only after a
\* failed TCP connect, only if the option connect was given enables the
\* launch and the guard of the process was not set; the guard is set before
\* the launch; after a launch that reports 0 the connect is tried exactly
\* once more; when the launch reports another code, the second connect fails,
\* the launch is disabled or the guard was set already, connect throws a
\* connection error; and over the calls of one process the server is
\* launched at most once.
C18_LaunchAfterFailedConnect ==
  /\ [](/\ launches <= 1
        /\ call.pc = "launch" =>
             /\ serverLaunchTried
             /\ call.last = "failed"
             /\ call.conn_option.launchServerIfNeed
        /\ call.launch_code # <<>> =>
             /\ call.conn_option.launchServerIfNeed
             /\ call.connects >= 1
        /\ call.connects <= 2
        /\ (call.pc = "done" /\ call.launch_code = <<0>>) => call.connects = 2
        /\ (call.pc = "done" /\ (call.last = "failed" \/ call.launch_code = <<1>>))
             => call.thrown = "connection_error")
  /\ [][/\ launches' # launches =>
             /\ launches = 0
             /\ launches' = 1
             /\ call.pc = "launch"
             /\ serverLaunchTried
             /\ call'.pc = IF call'.launch_code = <<0>> THEN "connect" ELSE "done"
        /\ serverLaunchTried' # serverLaunchTried =>
             /\ ~serverLaunchTried
             /\ ~listening
             /\ call.pc = "connect"
             /\ call.conn_option.launchServerIfNeed
             /\ call'.pc = "launch"
             /\ launches' = launches]_vars

\* a second connect after a launch that reported 0 has failed
C18_Witness ==
  /\ call.pc = "done"
  /\ call.launch_code = <<0>>
  /\ call.connects = 2
  /\ call.last = "failed"
  /\ call.thrown = "connection_error"
  /\ launches = 1

\* a later call finds the guard set and fails without a launch
C18_GuardWitness ==
  /\ call.pc = "done"
  /\ call.conn_option.launchServerIfNeed
  /\ call.launch_code = <<>>
  /\ call.last = "failed"
  /\ serverLaunchTried
  /\ launches = 1

\* C19: query and command_query return the empty string when the connection
\* to the server fails and the caller's option disables the launch; when the
\* option enables it and the connection still fails after the launch was
\* attempted, the caller gets the connection error and not an empty result.
C19_ConnectionErrorSwallowedOnlyWhenDisabled ==
  (call.pc = "done" /\ Through(call.op) \in {"query", "command_query"}
     /\ call.thrown = "connection_error") =>
    /\ ~call.option.launchServerIfNeed =>
         call.result = <<[raised |-> "", value |-> ""]>>
    /\ (call.option.launchServerIfNeed /\ call.launch_code # <<>>) =>
         call.result[1].raised = "connection_error"

\* the part of C19 that holds: with the launch disabled by the caller a
\* failed connection gives the empty string
C19_EmptyWhenDisabled ==
  (call.pc = "done" /\ Through(call.op) \in {"query", "command_query"}
     /\ call.thrown = "connection_error" /\ ~call.option.launchServerIfNeed) =>
    call.result = <<[raised |-> "", value |-> ""]>>

\* C20: an operation called with a TransportOption whose launchServerIfNeed
\* is false never launches the server, whichever of query, command,
\* command_query, wait_device and get_features it is and whatever the guard.
C20_NoLaunchWhenDisabled ==
  [][launches' # launches => call.option.launchServerIfNeed]_vars

\* the part of C20 that holds: co_query hands its option on to connect
C20_QueryNeverLaunchesWhenDisabled ==
  [][(launches' # launches /\ Through(call.op) = "query")
       => call.option.launchServerIfNeed]_vars

\* C21 as stated: with a timeout, when no status has reached the socket by
\* the time the timeout elapses the watchdog closes the socket and the
\* operation fails with "command timeout"; when OKAY has reached the socket
\* before the timeout elapses the operation succeeds and the watchdog never
\* closes the socket.
C21_Original ==
  (cmd.armed /\ cmd.co = "done") =>
    /\ (cmd.elapsed /\ ~cmd.arrived_in_time) =>
         cmd.closed_by_watchdog /\ cmd.result = <<"command timeout">>
    /\ (cmd.arrived_in_time /\ cmd.wire[1].status = "OKAY") =>
         cmd.result = <<"">> /\ ~cmd.closed_by_watchdog

\* C21: with a timeout, the watchdog closes the socket only after the timeout
\* has elapsed without the coroutine having recorded OKAY; a status read that
\* fails because of the close makes the operation fail with "command
\* timeout", and once the timeout has elapsed the operation does end; when
\* OKAY has been read and recorded before the timeout elapses the operation
\* succeeds and the watchdog never closes the socket.
C21_TimeoutClosesAndFails ==
  /\ [](/\ cmd.closed_by_watchdog => cmd.elapsed /\ ~cmd.set_in_time
        /\ (cmd.armed /\ cmd.co = "done" /\ cmd.read[1].status = "aborted") =>
             cmd.closed_by_watchdog /\ cmd.result = <<"command timeout">>
        /\ (cmd.armed /\ cmd.co = "done" /\ cmd.set_in_time) =>
             cmd.result = <<"">> /\ ~cmd.closed_by_watchdog)
  /\ (cmd.armed /\ cmd.elapsed) ~> (cmd.co = "done")

\* no status came; the watchdog closed the socket under the pending read
C21_Witness ==
  /\ cmd.armed
  /\ cmd.co = "done"
  /\ cmd.wire = <<>>
  /\ cmd.read[1].status = "aborted"
  /\ cmd.closed_by_watchdog
  /\ cmd.result = <<"command timeout">>

\* OKAY was recorded before the timeout; the watchdog left the socket open
C21_SuccessWitness ==
  /\ cmd.armed
  /\ cmd.co = "done"
  /\ cmd.set_in_time
  /\ cmd.socket = "open"
  /\ cmd.result = <<"">>

\* C22: a FAIL status with a message reaches the caller as an error with
\* exactly that message, also from command and wait_device with a timeout
\* when the server answers FAIL before the timeout elapses.
C22_FailVerbatim ==
  (cmd.co = "done" /\ cmd.read[1].status = "FAIL"
     /\ (cmd.armed => cmd.read_in_time)) =>
    cmd.result = <<cmd.read[1].msg>>

\* the part of C22 that holds: without a timeout the message is the error
C22_FailVerbatimWithoutTimeout ==
  (cmd.co = "done" /\ ~cmd.armed /\ cmd.read[1].status = "FAIL") =>
    cmd.result = <<cmd.read[1].msg>>

\* The payloads of the packets with one id, in order
RECURSIVE PayloadsOf(_, _)
PayloadsOf(packets, id) ==
  IF packets = <<>> THEN <<>>
  ELSE (IF Head(packets).id = id THEN Head(packets).payload ELSE <<>>)
         \o PayloadsOf(Tail(packets), id)

\* The offsets in the stream at which the packets' headers start
RECURSIVE HeaderOffsets(_, _)
HeaderOffsets(packets, at) ==
  IF packets = <<>> THEN {}
  ELSE {at} \cup HeaderOffsets(Tail(packets),
                               at + kHeaderSize + Len(Head(packets).payload))

\* C23: for every sequence of packets that ends with an exit packet, with
\* payloads that may be longer than the room in the buffer, read_shell_output
\* returns the stdout payloads concatenated in order, the stderr payloads
\* likewise and the first payload byte of the exit packet as the exit code;
\* a header is read only when bytes_left is 0, and only from the offsets at
\* which a packet starts, never from inside a payload.
C23_ShellOutput ==
  /\ [](/\ shell.headers \subseteq HeaderOffsets(shell.packets, 0)
        /\ shell.bytes_left >= 0
        /\ shell.pc = "done" =>
             /\ shell.output = PayloadsOf(shell.packets, kIdStdout)
             /\ shell.errout = PayloadsOf(shell.packets, kIdStderr)
             /\ shell.exitCode = shell.packets[Len(shell.packets)].payload[1]
             /\ shell.headers = HeaderOffsets(shell.packets, 0))
  /\ [][shell'.headers # shell.headers => shell.bytes_left = 0]_vars

\* a stdout payload longer than the buffer was read in pieces
C23_Witness ==
  /\ shell.pc = "done"
  /\ Len(shell.packets) = MaxPackets
  /\ shell.packets[1].id = kIdStdout
  /\ Len(shell.packets[1].payload) > data_capacity
  /\ shell.packets[2].id = kIdStderr
  /\ Len(shell.packets[2].payload) > data_capacity
  /\ shell.output = shell.packets[1].payload

\* C24: the list that the public sync_list operation returns never holds an
\* entry named "." or "..", whatever entries the server streams before DONE.
C24_NoDotEntries ==
  (sync.pc = "done" /\ sync.result[1].error = "") =>
    \A i \in 1..Len(sync.result[1].list) :
      sync.result[1].list[i].name \notin {".", ".."}

\* what holds instead: the list holds the name of every entry streamed, in
\* the order of the stream
C24_EveryEntryListed ==
  (sync.pc = "done" /\ sync.result[1].error = "") =>
    sync.result[1].list = [i \in 1..Len(sync.dents) |-> [name |-> sync.dents[i].name]]

\* The payloads of a stream of valid DATA messages, joined in order
RECURSIVE Joined(_)
Joined(msgs) ==
  IF msgs = <<>> THEN "" ELSE Head(msgs).payload \o Joined(Tail(msgs))

\* every message is DATA of at most SYNC_DATA_MAX bytes
AllData(msgs) ==
  \A i \in 1..Len(msgs) :
    msgs[i].id = "DATA" /\ msgs[i].length <= SYNC_DATA_MAX

Requests(ids) == {j \in 1..Len(sync.sent) : sync.sent[j].id \in ids}

DstIsExistingDirectory ==
  IF sync.op = "pull" THEN sync.dst \in LocalFs.dirs
  ELSE RemoteEntry(sync.remote, sync.dst).follows = "DIR"

C26_PullWitness ==
  /\ sync.op = "pull" /\ Len(sync.srcs) > 1 /\ ~DstIsExistingDirectory
  /\ sync.pc = "done"
  /\ sync.result = ErrorResult("failed to access")
  /\ sync.sent = << >>

\* C27: in the work list remote_build_list makes for a remote directory,
\* every file entry comes after a directory entry that names the file's
\* local parent directory.
C27_DirectoryBeforeItsFiles ==
  \A j \in 1..Len(sync.file_list) :
    sync.file_list[j].mode # "DIR"
      => \E i \in 1..(j - 1) :
           /\ sync.file_list[i].mode = "DIR"
           /\ Named(sync.file_list[i].lpath)
                = parent_path(sync.file_list[j].lpath)

\* C27, as it shows on the host: a pull into the existing directory L
\* never fails to open a local file.
C27_PullIntoDirectoryOpens ==
  (sync.op = "pull" /\ sync.dst = "L") => sync.result # ErrorResult("open")

\* The directories a pull creates are the parents its entries name: what
\* does hold of the work list is that the entry of a directory names the
\* directory above it
C27_EntryNamesTheDirectoryAbove ==
  \A j \in 1..Len(sync.file_list) :
    sync.file_list[j].mode # "DIR"
      => \E i \in 1..(j - 1) :
           /\ sync.file_list[i].mode = "DIR"
           /\ Named(sync.file_list[i].lpath)
                = parent_path(parent_path(sync.file_list[j].lpath))


\* The worker has just dropped the Trigger of an arrival at the retry cap
TriggerDroppedAtCap ==
  /\ thr.worker.pc = "ret"
  /\ wk.outcome = "dropped"
  /\ wk.req # <<>>
  /\ wk.req[1].round = MAX_ADB_RETRY_COUNT
  /\ IsUsbConnectedAdb(wk.req[1].node)

\* C28: once the Trigger of a USB-ADB record whose serial was never
\* correlated is dropped at the retry cap, `cached` does not hold the
\* record's identity any more.
C28_DroppedTriggerRetiresRecord ==
  TriggerDroppedAtCap => wk.req[1].node.identity \notin DOMAIN cached

\* What the code does instead: in a run whose only OS notification was the
\* arrival, the record cached on arrival is still cached, and was never
\* emitted, after its Trigger has been dropped
C28_DroppedTriggerKeepsRecord ==
  (TriggerDroppedAtCap /\ attached # {} /\ events = RetryEvents - 1)
    => /\ wk.req[1].node.identity \in DOMAIN cached
       /\ wk.req[1].node.identity \notin arrived


\* C29: when adb_list_devices fails inside a reconciliation step, that
\* step sweeps nothing and emits nothing, the stop signal stays set, and
\* the worker starts no reconciliation step afterwards, not even for a
\* Trigger that is still queued.
C29_ListFailureHaltsWorker ==
  /\ [](wk.outcome = "failed" => /\ wk.todo = <<>>
                                 /\ thr.worker.emits = <<>>
                                 /\ stop_requested)
  /\ [][stop_requested => stop_requested']_vars
  /\ [][stop_requested => ~(thr.worker.pc = "wait" /\ thr'.worker.pc = "list")]_vars

\* What holds of the code: the failed step itself does nothing, the signal
\* is never taken back, and the steps that follow it are steps for
\* Triggers that were queued
C29_WorkerDrainsThenExits ==
  /\ [](wk.outcome = "failed" => /\ wk.todo = <<>>
                                 /\ thr.worker.emits = <<>>
                                 /\ stop_requested)
  /\ [][stop_requested => stop_requested']_vars
  /\ [][(stop_requested /\ thr.worker.pc = "wait" /\ thr'.worker.pc = "list")
          => reqs # <<>> /\ wk'.req = << Head(reqs) >>]_vars


\* C30: when both threads run connect with the launch enabled and both see
\* their first TCP connect fail, the ADB server is spawned at most once.
C30_AtMostOneLaunch ==
  (\A t \in ConnectThreads : /\ race[t].option.launchServerIfNeed
                             /\ race[t].first = "failed")
    => launches <= 1

\* What does hold: no thread spawns the server twice, and a thread that
\* connects after the guard was set by itself does not spawn it
C30_OneLaunchPerThread ==
  \A t \in ConnectThreads : race[t].launched <= 1


\* The directories a remote path lies in, itself included, the root left out
AncestorsOf(rpath) ==
  {Named(SubSeq(rpath, 1, i)) : i \in {j \in 1..Len(rpath) :
                                         SubSeq(rpath, j, j) = "/"}}
    \ {"/"}

\* C40: the loop that collects the ancestors of the remote destination
\* terminates for every non-empty destination (each turn leaves a path
\* strictly shorter than the one before), and the list it leaves holds the
\* destination and its ancestors without the root, the outermost first.
C40_AncestorsLoopTerminates ==
  sync.op = "ancestors" =>
    /\ sync.turns > 0 => Len(sync.path) < Len(sync.prev)
    /\ sync.pc = "done" =>
         /\ {Named(sync.directory_list[i]) : i \in DOMAIN sync.directory_list}
              = AncestorsOf(sync.rpath)
         /\ \A i, j \in DOMAIN sync.directory_list :
              i < j => Len(sync.directory_list[i]) <= Len(sync.directory_list[j])

\* What holds: the claim for every destination that starts with a slash
C40_AbsoluteDestinations ==
  (sync.op = "ancestors" /\ SubSeq(sync.rpath, 1, 1) = "/") =>
    /\ sync.turns > 0 => Len(sync.path) < Len(sync.prev)
    /\ sync.turns < MaxTurns
    /\ sync.pc = "done" =>
         /\ {Named(sync.directory_list[i]) : i \in DOMAIN sync.directory_list}
              = AncestorsOf(sync.rpath)
         /\ \A i, j \in DOMAIN sync.directory_list :
              i < j => Len(sync.directory_list[i]) <= Len(sync.directory_list[j])


ReturnedSuccessfully == sync.pc = "done" /\ sync.result = << "ok" >>

EndsWithQuit ==
  /\ sync.sent # << >>
  /\ sync.sent[Len(sync.sent)] = [id |-> "QUIT", path |-> ""]

\* C35: every public sync operation that returns successfully has written
\* the frame [QUIT, length 0] as the last frame of its sync session.
C35_SessionEndsWithQuit ==
  ReturnedSuccessfully => EndsWithQuit

\* What holds: the same of every operation but sync_stat
C35_AllButStatEndWithQuit ==
  (ReturnedSuccessfully /\ sync.op # "stat") => EndsWithQuit


\* The identities of the interfaces the source has reported and not removed
AttachedIdentities == { createUuid(InterfaceId(p)) : p \in attached }

\* C36: from the removal of an interface until the source reports it again
\* cached_interfaces_ holds no record for its identity: a Trigger that is
\* queued or retried across the removal never inserts the record again.
C36_NoGhostRecords ==
  \A uuid \in DOMAIN cached :
    "Usb" \in cached[uuid].type => uuid \in AttachedIdentities


\* The producer's last call of push_request_conditional has returned
ConditionalReturned ==
  /\ thr.producer.pc = "idle"
  /\ thr.producer.kind = "conditional"
  /\ thr.producer.ret # << >>

SomeEntrySatisfies(q, identity) ==
  \E i \in 1..Len(q) : q[i].node.identity = identity

\* C32: push_request_conditional(req, pred) returns false and leaves the
\* queue as it was when an entry of the queue satisfies pred; otherwise it
\* appends req behind the entries, wakes the consumer and returns true.
C32_ConditionalPush ==
  /\ [][\A kind \in {"conditional"}, identity \in TaskIdentities :
          TaskPush(kind, identity) =>
            IF SomeEntrySatisfies(reqs, identity)
            THEN reqs' = reqs /\ thr'.producer.ret = << FALSE >>
            ELSE /\ reqs' = Append(reqs, thr'.producer.req[1])
                 /\ thr'.producer.req[1].node.identity = identity
                 /\ thr'.producer.ret = << >>]_vars
  /\ [](ConditionalReturned =>
          IF SomeEntrySatisfies(thr.producer.before,
                                thr.producer.req[1].node.identity)
          THEN thr.producer.ret = << FALSE >> /\ ~thr.producer.woke
          ELSE thr.producer.ret = << TRUE >> /\ thr.producer.woke)

C32_Dropped ==
  /\ ConditionalReturned
  /\ thr.producer.ret = << FALSE >>
  /\ Len(thr.producer.before) = 2

C32_Appended ==
  /\ ConditionalReturned
  /\ thr.producer.ret = << TRUE >>
  /\ Len(thr.producer.before) = 2

\* The handler is entered in this step
HandlerInvoked == thr.worker.pc # "run" /\ thr'.worker.pc = "run"

\* C33: the periodic worker calls the handler first with no request; later
\* it calls it with no request only when it found the queue empty and stop
\* not requested, and with the head of the queue, which it removes, exactly
\* when the queue was not empty.
C33_PeriodicHandler ==
  /\ [](wk.periodic /\ wk.handled # << >> => wk.handled[1] = << >>)
  /\ [][(wk.periodic /\ HandlerInvoked /\ wk.handled # << >>) =>
          IF reqs = << >>
          THEN thr'.worker.req = << >> /\ ~stop_requested /\ reqs' = reqs
          ELSE thr'.worker.req = << Head(reqs) >> /\ reqs' = Tail(reqs)]_vars

C33_NoneAndSome ==
  /\ wk.periodic
  /\ Len(wk.handled) = 4
  /\ wk.handled[2] # << >>
  /\ wk.handled[3] = << >>
  /\ wk.handled[4] # << >>

\* C34 (third part): the queue is empty once stop() has returned.
C34_QueueEmptyAfterStop ==
  thr.stopper.pc = "returned" => reqs = << >>

\* C34 (first two parts): with consume_all_requests off no queued request
\* is handed out once stop is requested; with it on the thread leaves its
\* loop only with the queue empty, every request having gone to the handler.
C34_StopModes ==
  /\ [][(stop_requested /\ ~wk.consume_all /\ HandlerInvoked)
          => thr'.worker.req = << >>]_vars
  /\ [][(wk.consume_all /\ thr.worker.pc # "clear" /\ thr'.worker.pc = "clear")
          => reqs = << >>]_vars
  /\ [][(wk.consume_all /\ thr.worker.pc # "clear" /\ Len(reqs') < Len(reqs)) =>
          HandlerInvoked /\ thr'.worker.req = << Head(reqs) >>]_vars

\* The requests the handler has been called with, in order
HandledRequests ==
  LET some == SelectSeq(wk.handled, LAMBDA h : h # << >>)
  IN  [i \in 1..Len(some) |-> some[i][1]]

\* C37: the handler receives the requests in the order of the successful
\* pushes, each at most once, one call at a time; while stop is not
\* requested a request leaves the queue only into the handler, and the queue
\* is emptied again and again: every queued request reaches the handler.
C37_FifoAndNoLostWakeup ==
  /\ [](/\ Len(HandledRequests) <= Len(wk.pushed)
        /\ HandledRequests = SubSeq(wk.pushed, 1, Len(HandledRequests))
        /\ (thr.worker.pc = "run") =>
             wk.handled[Len(wk.handled)] = thr.worker.req)
  /\ [][(~stop_requested /\ Len(reqs') < Len(reqs)) =>
          HandlerInvoked /\ thr'.worker.req = << Head(reqs) >>]_vars
  /\ []<>(stop_requested \/ reqs = << >>)

\* the worker was blocked in the wait when a request was pushed, and the
\* handler has got the request
C37_WokenForRequest ==
  /\ ~wk.periodic
  /\ ~stop_requested
  /\ thr.worker.pc = "run"
  /\ thr.worker.req # << >>
  /\ thr.worker.req[1].round = 2
  /\ thr.producer.woke
  /\ reqs # << >>


\* C38: once deleteAdbTask has asked the worker to stop, the worker thread
\* ends and stop returns, although the worker hands out every queued Trigger
\* first and its handler enqueues the uncorrelated ones again.
C38_ShutdownTerminates ==
  (thr.os.pc = "join") ~> (thr.os.pc = "stopped" /\ thr.worker.pc = "exit")

\* the handler has enqueued a Trigger again while the queue is being drained
C38_RequeuedWhileDraining ==
  /\ thr.os.pc = "join"
  /\ stop_requested
  /\ thr.worker.pc = "ret"
  /\ wk.outcome = "requeued"
  /\ wk.req[1].round = 2


\* C39: with two callers of wait_for on one WatchWaiter, a call returns true
\* only if its own target was matched against a record of the waiter and
\* was overwritten with that record.
C39_TrueOnlyOnOwnMatch ==
  \A c \in Callers :
    (wpc[c] = "done" /\ wresult[c] = <<TRUE>>) =>
      target[c] \in WaiterRecords /\ test_match(target0[c], target[c])


\* C31: the user callback is never entered, and never runs, while the
\* thread that invokes it holds mutex_; a callback that takes mutex_ again
\* therefore never waits for its own thread.
C31_CallbackOutsideMutex ==
  /\ [](\A t \in Threads : thr[t].cb = "in" => wk.mutex # t)
  /\ [][\A t \in Threads :
          (thr[t].cb = "no" /\ thr'[t].cb = "in") => wk.mutex # t]_vars

\* a callback runs, entered from onUsbInterfaceOff, while the other thread
\* is inside a critical section
C31_CallbackWhileOtherLocks ==
  /\ thr.os.cb = "in"
  /\ thr.os.fn = "onUsbInterfaceOff"
  /\ wk.mutex = "worker"
  /\ thr.worker.fn = "onDeviceInterfaceChangedToOn"

=============================================================================
